---- MODULE Spec2Model ----
(***************************************************************************)
(* Tab categorisation (LocalLLM) and group reconciliation                  *)
(* (TabGroupManager) of the TooTabTooFurious extension.                    *)
(*                                                                         *)
(* Strings are sequences of one-character strings, so that toLowerCase,    *)
(* trim, includes, replace and the regular expressions of the source are   *)
(* computed character by character.                                        *)
(***************************************************************************)
EXTENDS Integers, Sequences, FiniteSets, TLC

\* ------------------------------------------------------------------ strings

Digits ==
  <<"0","1","2","3","4","5","6","7","8","9">>

UpperChars ==
  <<"A","B","C","D","E","F","G","H","I","J","K","L","M","N","O","P","Q","R","S","T","U","V","W","X","Y","Z">>

LowerChars ==
  <<"a","b","c","d","e","f","g","h","i","j","k","l","m","n","o","p","q","r","s","t","u","v","w","x","y","z">>

SetMin(S) == CHOOSE x \in S : \A y \in S : x <= y

SetMax(S) == CHOOSE x \in S : \A y \in S : x >= y

toLowerCaseChar(c) ==
  IF \E i \in 1..Len(UpperChars) : UpperChars[i] = c
  THEN LowerChars[CHOOSE i \in 1..Len(UpperChars) : UpperChars[i] = c]
  ELSE c

\* String.prototype.toLowerCase
toLowerCase(s) == [i \in 1..Len(s) |-> toLowerCaseChar(s[i])]

\* the characters \s matches, as far as the model's strings hold them
IsSpace(c) == c \in {" ", "\t", "\n"}

\* String.prototype.trim
trim(s) ==
  LET keep == {i \in 1..Len(s) : ~IsSpace(s[i])}
  IN IF keep = {} THEN <<>> ELSE SubSeq(s, SetMin(keep), SetMax(keep))

\* String.prototype.includes
includes(s, t) ==
  \E i \in 1..(Len(s) - Len(t) + 1) : SubSeq(s, i, i + Len(t) - 1) = t

\* s.replace(/[...]+/g, '') : drops every character of the class
RECURSIVE removeChars(_, _)
removeChars(s, class) ==
  IF s = <<>> THEN <<>>
  ELSE IF Head(s) \in class THEN removeChars(Tail(s), class)
       ELSE <<Head(s)>> \o removeChars(Tail(s), class)

\* Array.prototype.slice(begin, end), negative indices counting from the end
JsIndex(k, n) == IF k < 0 THEN (IF n + k < 0 THEN 0 ELSE n + k) ELSE (IF k > n THEN n ELSE k)

slice(s, begin, end) == SubSeq(s, JsIndex(begin, Len(s)) + 1, JsIndex(end, Len(s)))

sliceFrom(s, begin) == SubSeq(s, JsIndex(begin, Len(s)) + 1, Len(s))

RECURSIVE flatMapTabIds(_)
flatMapTabIds(gs) ==
  IF gs = <<>> THEN <<>> ELSE Head(gs).tabIds \o flatMapTabIds(Tail(gs))

\* s.match(/a1|a2|.../i)[0].length, 0 when there is no match: the leftmost
\* position where an alternative matches, and there the first alternative.
matchLength(s, alts) ==
  LET ls == toLowerCase(s)
      at(i) == {k \in 1..Len(alts) :
                  /\ i + Len(alts[k]) - 1 <= Len(ls)
                  /\ SubSeq(ls, i, i + Len(alts[k]) - 1) = alts[k]}
      pos == {i \in 1..Len(ls) : at(i) # {}}
  IN IF pos = {} THEN 0 ELSE Len(alts[SetMin(at(SetMin(pos)))])

\* ------------------------------------------------------- category vocabulary

Other == <<"O","t","h","e","r">>

VALID_CATEGORIES ==
  << <<"D","e","v">>,
     <<"S","o","c","i","a","l">>,
     <<"E","n","t","e","r","t","a","i","n","m","e","n","t">>,
     <<"S","h","o","p","p","i","n","g">>,
     <<"W","o","r","k">>,
     <<"N","e","w","s">>,
     <<"C","l","o","u","d">>,
     <<"D","o","c","s">>,
     <<"F","i","n","a","n","c","e">>,
     <<"A","I">>,
     <<"E","d","u","c","a","t","i","o","n">>,
     <<"C","o","m","m","u","n","i","c","a","t","i","o","n">>,
     <<"H","e","a","l","t","h">>,
     <<"T","r","a","v","e","l">>,
     <<"D","e","s","i","g","n">>,
     <<"A","n","a","l","y","t","i","c","s">>,
     <<"S","e","c","u","r","i","t","y">>,
     <<"M","a","r","k","e","t","i","n","g">>,
     <<"G","o","v","e","r","n","m","e","n","t">>,
     <<"F","o","o","d">>,
     <<"P","h","o","t","o","g","r","a","p","h","y">>,
     <<"R","e","a","l"," ","E","s","t","a","t","e">>,
     <<"H","R">>,
     <<"L","e","g","a","l">>,
     <<"I","n","s","u","r","a","n","c","e">>,
     <<"U","t","i","l","i","t","i","e","s">>,
     <<"O","t","h","e","r">> >>

CATEGORY_COLORS ==
  << "blue", "pink", "red", "orange", "green", "purple", "cyan", "yellow", "green", "purple", "blue", "pink", "green", "orange", "purple", "blue", "red", "orange", "grey", "yellow", "purple", "green", "blue", "grey", "green", "grey", "grey" >>

IndexOf(seq, x) ==
  IF \E i \in 1..Len(seq) : seq[i] = x
  THEN SetMin({i \in 1..Len(seq) : seq[i] = x})
  ELSE 0

groupColors == <<"blue", "red", "yellow", "green", "pink", "purple", "cyan", "orange">>

\* String.prototype.charCodeAt for the characters the model's names hold
charCodeAt(c) ==
  IF IndexOf(UpperChars, c) # 0 THEN 64 + IndexOf(UpperChars, c)
  ELSE IF IndexOf(LowerChars, c) # 0 THEN 96 + IndexOf(LowerChars, c)
  ELSE IF IndexOf(Digits, c) # 0 THEN 47 + IndexOf(Digits, c)
  ELSE IF c = "-" THEN 45
  ELSE IF c = "." THEN 46
  ELSE IF c = "_" THEN 95
  ELSE 32

RECURSIVE charCodeSum(_)
charCodeSum(s) == IF s = <<>> THEN 0 ELSE charCodeAt(Head(s)) + charCodeSum(Tail(s))

hashColor(name) == groupColors[(charCodeSum(name) % Len(groupColors)) + 1]

selectColor(name) ==
  IF IndexOf(VALID_CATEGORIES, name) # 0
  THEN CATEGORY_COLORS[IndexOf(VALID_CATEGORIES, name)]
  ELSE hashColor(name)

\* the patterns table of patternBasedCategorization, in declaration order;
\* every regular expression there is an alternation of literals under /i
\* (capital\s*one is listed with no and with one blank)
patterns ==
  <<
     [cat |-> <<"D","e","v">>,
      alts |-> << <<"g","i","t","h","u","b">>,
                 <<"g","i","t","l","a","b">>,
                 <<"s","t","a","c","k","o","v","e","r","f","l","o","w">>,
                 <<"l","o","c","a","l","h","o","s","t">>,
                 <<"c","o","d","e","p","e","n">>,
                 <<"j","s","f","i","d","d","l","e">>,
                 <<"r","e","p","l","i","t">>,
                 <<"v","e","r","c","e","l">>,
                 <<"n","e","t","l","i","f","y">>,
                 <<"n","p","m">>,
                 <<"y","a","r","n">> >>],
     [cat |-> <<"S","o","c","i","a","l">>,
      alts |-> << <<"f","a","c","e","b","o","o","k">>,
                 <<"t","w","i","t","t","e","r">>,
                 <<"i","n","s","t","a","g","r","a","m">>,
                 <<"l","i","n","k","e","d","i","n">>,
                 <<"r","e","d","d","i","t">>,
                 <<"d","i","s","c","o","r","d">>,
                 <<"s","l","a","c","k">>,
                 <<"t","e","l","e","g","r","a","m">>,
                 <<"w","h","a","t","s","a","p","p">>,
                 <<"m","a","s","t","o","d","o","n">> >>],
     [cat |-> <<"E","n","t","e","r","t","a","i","n","m","e","n","t">>,
      alts |-> << <<"y","o","u","t","u","b","e">>,
                 <<"n","e","t","f","l","i","x">>,
                 <<"s","p","o","t","i","f","y">>,
                 <<"t","w","i","t","c","h">>,
                 <<"h","u","l","u">>,
                 <<"d","i","s","n","e","y">>,
                 <<"p","r","i","m","e"," ","v","i","d","e","o">>,
                 <<"v","i","m","e","o">>,
                 <<"s","o","u","n","d","c","l","o","u","d">>,
                 <<"s","t","e","a","m">>,
                 <<"e","p","i","c">>,
                 <<"x","b","o","x">>,
                 <<"p","l","a","y","s","t","a","t","i","o","n">>,
                 <<"n","i","n","t","e","n","d","o">>,
                 <<"i","t","c","h",".","i","o">>,
                 <<"g","o","g">> >>],
     [cat |-> <<"S","h","o","p","p","i","n","g">>,
      alts |-> << <<"a","m","a","z","o","n">>,
                 <<"e","b","a","y">>,
                 <<"e","t","s","y">>,
                 <<"a","l","i","b","a","b","a">>,
                 <<"w","a","l","m","a","r","t">>,
                 <<"t","a","r","g","e","t">>,
                 <<"b","e","s","t","b","u","y">>,
                 <<"s","h","o","p","i","f","y">> >>],
     [cat |-> <<"W","o","r","k">>,
      alts |-> << <<"g","m","a","i","l">>,
                 <<"o","u","t","l","o","o","k">>,
                 <<"o","f","f","i","c","e">>,
                 <<"d","o","c","s",".","g","o","o","g","l","e">>,
                 <<"d","r","i","v","e",".","g","o","o","g","l","e">>,
                 <<"n","o","t","i","o","n">>,
                 <<"a","s","a","n","a">>,
                 <<"t","r","e","l","l","o">>,
                 <<"j","i","r","a">>,
                 <<"m","o","n","d","a","y">> >>],
     [cat |-> <<"N","e","w","s">>,
      alts |-> << <<"c","n","n">>,
                 <<"b","b","c">>,
                 <<"r","e","u","t","e","r","s">>,
                 <<"b","l","o","o","m","b","e","r","g">>,
                 <<"t","e","c","h","c","r","u","n","c","h">>,
                 <<"h","a","c","k","e","r","n","e","w","s">>,
                 <<"n","y","t","i","m","e","s">>,
                 <<"w","s","j">>,
                 <<"g","u","a","r","d","i","a","n">> >>],
     [cat |-> <<"C","l","o","u","d">>,
      alts |-> << <<"a","w","s">>,
                 <<"a","z","u","r","e">>,
                 <<"g","c","p">>,
                 <<"c","o","n","s","o","l","e",".","c","l","o","u","d">>,
                 <<"p","o","r","t","a","l",".","a","z","u","r","e">>,
                 <<"c","o","n","s","o","l","e",".","a","w","s">>,
                 <<"d","i","g","i","t","a","l","o","c","e","a","n">>,
                 <<"h","e","r","o","k","u">> >>],
     [cat |-> <<"D","o","c","s">>,
      alts |-> << <<"d","o","c","s",".">>,
                 <<"d","o","c","u","m","e","n","t","a","t","i","o","n">>,
                 <<"w","i","k","i">>,
                 <<"m","d","n">>,
                 <<"w","3","s","c","h","o","o","l","s">>,
                 <<"d","e","v","d","o","c","s">>,
                 <<"r","e","a","d","m","e">>,
                 <<"a","p","i",".">> >>],
     [cat |-> <<"F","i","n","a","n","c","e">>,
      alts |-> << <<"b","a","n","k">>,
                 <<"p","a","y","p","a","l">>,
                 <<"v","e","n","m","o">>,
                 <<"c","r","y","p","t","o">>,
                 <<"c","o","i","n","b","a","s","e">>,
                 <<"b","i","n","a","n","c","e">>,
                 <<"r","o","b","i","n","h","o","o","d">>,
                 <<"f","i","d","e","l","i","t","y">>,
                 <<"c","h","a","s","e">>,
                 <<"s","c","h","w","a","b">>,
                 <<"v","a","n","g","u","a","r","d">>,
                 <<"e","t","r","a","d","e">>,
                 <<"a","m","e","r","i","t","r","a","d","e">>,
                 <<"w","e","l","l","s","f","a","r","g","o">>,
                 <<"b","o","f","a">>,
                 <<"c","i","t","i","b","a","n","k">>,
                 <<"c","a","p","i","t","a","l","o","n","e">>,
                 <<"c","a","p","i","t","a","l"," ","o","n","e">>,
                 <<"d","i","s","c","o","v","e","r">>,
                 <<"a","m","e","x">>,
                 <<"m","a","s","t","e","r","c","a","r","d">>,
                 <<"v","i","s","a">>,
                 <<"m","i","n","t">>,
                 <<"q","u","i","c","k","e","n">>,
                 <<"t","u","r","b","o","t","a","x">> >>],
     [cat |-> <<"A","I">>,
      alts |-> << <<"o","p","e","n","a","i">>,
                 <<"c","l","a","u","d","e">>,
                 <<"a","n","t","h","r","o","p","i","c">>,
                 <<"h","u","g","g","i","n","g","f","a","c","e">>,
                 <<"c","o","l","a","b">>,
                 <<"k","a","g","g","l","e">>,
                 <<"c","h","a","t","g","p","t">>,
                 <<"b","a","r","d">>,
                 <<"g","e","m","i","n","i">> >>],
     [cat |-> <<"E","d","u","c","a","t","i","o","n">>,
      alts |-> << <<"c","o","u","r","s","e","r","a">>,
                 <<"u","d","e","m","y">>,
                 <<"k","h","a","n">>,
                 <<"e","d","x">>,
                 <<"u","d","a","c","i","t","y">>,
                 <<"p","l","u","r","a","l","s","i","g","h","t">>,
                 <<"s","k","i","l","l","s","h","a","r","e">> >>]
  >>


\* ------------------------------------------------------------- GroupLimiter

\* the groups left in the order they came
keepQueryOrder(groups) == groups

\* groups.sort((a, b) => b.tabIds.length - a.tabIds.length): Array.prototype.sort
\* is stable, so groups of equal size keep their relative order.
RECURSIVE insertByTabCount(_, _)
insertByTabCount(sorted, g) ==
  IF sorted = <<>> THEN <<g>>
  ELSE IF Len(Head(sorted).tabIds) >= Len(g.tabIds)
       THEN <<Head(sorted)>> \o insertByTabCount(Tail(sorted), g)
       ELSE <<g>> \o sorted

RECURSIVE sortByTabCount(_)
sortByTabCount(groups) ==
  IF groups = <<>> THEN <<>>
  ELSE CHOOSE sorted \in
         {insertByTabCount(rest, groups[Len(groups)]) :
            rest \in {sortByTabCount(SubSeq(groups, 1, Len(groups) - 1))}} : TRUE

\* keepGroups.find(g => g.name === 'Other'): index of the first such group, 0 if none
findByName(groups, name) ==
  IF \E i \in 1..Len(groups) : groups[i].name = name
  THEN SetMin({i \in 1..Len(groups) : groups[i].name = name})
  ELSE 0

\* existingOther.tabIds = otherTabIds in place of the push
mergeIntoOtherReplacing(keepGroups, otherTabIds, existingOther) ==
  IF Len(otherTabIds) > 0
  THEN IF existingOther # 0
       THEN [keepGroups EXCEPT ![existingOther].tabIds = otherTabIds]
       ELSE Append(keepGroups, [name |-> Other, color |-> "grey", tabIds |-> otherTabIds])
  ELSE keepGroups

\* a new group Other pushed whether or not one was kept
mergeIntoNewOther(keepGroups, otherTabIds, existingOther) ==
  IF Len(otherTabIds) > 0
  THEN Append(keepGroups, [name |-> Other, color |-> "grey", tabIds |-> otherTabIds])
  ELSE keepGroups

\* the merge of the smaller groups into 'Other'
mergeIntoOther(keepGroups, otherTabIds, existingOther) ==
  IF Len(otherTabIds) > 0
  THEN IF existingOther # 0
       THEN [keepGroups EXCEPT ![existingOther].tabIds = @ \o otherTabIds]
       ELSE Append(keepGroups, [name |-> Other, color |-> "grey", tabIds |-> otherTabIds])
  ELSE keepGroups

\* limitGroups once the groups are sorted
limitSorted(sorted, keepGroups, maxGroups) ==
  IF Len(sorted) > maxGroups
  THEN mergeIntoOther(keepGroups, flatMapTabIds(sliceFrom(sorted, maxGroups - 1)),
                      findByName(keepGroups, Other))
  ELSE sorted

\* slice(0, maxGroups) in place of slice(0, maxGroups - 1)
keepLargestOffByOne(sorted, maxGroups) == slice(sorted, 0, maxGroups)

keepLargest(sorted, maxGroups) == slice(sorted, 0, maxGroups - 1)

limitSortedGroups(sorted, maxGroups) ==
  limitSorted(sorted, keepLargest(sorted, maxGroups), maxGroups)

limitGroups(groups, maxGroups) ==
  CHOOSE limited \in {limitSortedGroups(sorted, maxGroups) :
                        sorted \in {sortByTabCount(groups)}} : TRUE

\* the limiting step of OffscreenLLM.fallbackCategorization: the first
\* maxGroups - 1 values of the Map in insertion order, then a pushed Other
offscreenLimit(groups, maxGroups) ==
  IF Len(groups) > maxGroups
  THEN Append(slice(groups, 0, maxGroups - 1),
              [name |-> Other, color |-> "grey",
               tabIds |-> flatMapTabIds(sliceFrom(groups, maxGroups - 1))])
  ELSE groups

\* ------------------------------------------------------ HeuristicClassifier

\* null, and the empty string: both are falsy in `if (!category)`
NoCategory == <<>>

ogTypeCategory(tab) ==
  LET ogTypeLower == toLowerCase(tab.ogType)
  IN IF tab.ogType = <<>> THEN NoCategory
     ELSE IF includes(ogTypeLower, <<"a","r","t","i","c","l","e">>) \/ includes(ogTypeLower, <<"b","l","o","g">>)
          THEN <<"N","e","w","s">>
     ELSE IF includes(ogTypeLower, <<"v","i","d","e","o">>) \/ includes(ogTypeLower, <<"m","u","s","i","c">>)
          THEN <<"E","n","t","e","r","t","a","i","n","m","e","n","t">>
     ELSE IF includes(ogTypeLower, <<"p","r","o","d","u","c","t">>) \/ includes(ogTypeLower, <<"s","h","o","p","p","i","n","g">>)
          THEN <<"S","h","o","p","p","i","n","g">>
     ELSE IF includes(ogTypeLower, <<"p","r","o","f","i","l","e">>) \/ includes(ogTypeLower, <<"p","e","r","s","o","n">>)
          THEN <<"S","o","c","i","a","l">>
     ELSE NoCategory

schemaTypeCategory(tab, category) ==
  LET schemaLower == toLowerCase(tab.schemaType)
  IN IF tab.schemaType = <<>> THEN category
     ELSE IF includes(schemaLower, <<"s","o","f","t","w","a","r","e","a","p","p","l","i","c","a","t","i","o","n">>) \/ includes(schemaLower, <<"c","o","d","e">>)
          THEN <<"D","e","v">>
     ELSE IF includes(schemaLower, <<"a","r","t","i","c","l","e">>) \/ includes(schemaLower, <<"n","e","w","s","a","r","t","i","c","l","e">>)
          THEN <<"N","e","w","s">>
     ELSE IF includes(schemaLower, <<"p","r","o","d","u","c","t">>) \/ includes(schemaLower, <<"o","f","f","e","r">>)
          THEN <<"S","h","o","p","p","i","n","g">>
     ELSE IF includes(schemaLower, <<"c","o","u","r","s","e">>) \/ includes(schemaLower, <<"e","d","u","c","a","t","i","o","n","a","l">>)
          THEN <<"E","d","u","c","a","t","i","o","n">>
     ELSE category

\* the summed match lengths of one pattern over domain, title, ogSiteName
\* and applicationName (an empty ogSiteName / applicationName is not matched)
patternMatchLength(tab, alts) ==
  matchLength(tab.domain, alts) + matchLength(tab.title, alts)
    + matchLength(tab.ogSiteName, alts) + matchLength(tab.applicationName, alts)

\* the best match so far replaced by one that is as long
RECURSIVE bestPatternLatest(_, _, _, _)
bestPatternLatest(tab, k, category, bestMatchLength) ==
  IF k > Len(patterns) THEN category
  ELSE LET len == patternMatchLength(tab, patterns[k].alts)
       IN IF len >= bestMatchLength /\ len > 0
          THEN bestPatternLatest(tab, k + 1, patterns[k].cat, len)
          ELSE bestPatternLatest(tab, k + 1, category, bestMatchLength)

\* for (const [cat, pattern] of Object.entries(patterns)): the best match so
\* far is replaced only by a strictly longer one
RECURSIVE bestPattern(_, _, _, _)
bestPattern(tab, k, category, bestMatchLength) ==
  IF k > Len(patterns) THEN category
  ELSE LET len == patternMatchLength(tab, patterns[k].alts)
       IN IF len > bestMatchLength
          THEN bestPattern(tab, k + 1, patterns[k].cat, len)
          ELSE bestPattern(tab, k + 1, category, bestMatchLength)

\* if (!category) category = 'Other'
orOther(category) == IF category = NoCategory THEN Other ELSE category

\* if (!category) { the pattern loop }
orByPattern(tab, category) ==
  IF category = NoCategory THEN bestPattern(tab, 1, NoCategory, 0) ELSE category

tabCategory(tab) ==
  orOther(orByPattern(tab, schemaTypeCategory(tab, ogTypeCategory(tab))))

\* categories.get(category).tabIds.push(tabId), the entry created on first use
addToCategory(categories, category, color, tabId) ==
  LET i == findByName(categories, category)
  IN IF i = 0
     THEN Append(categories, [name |-> category, color |-> color, tabIds |-> <<tabId>>])
     ELSE [categories EXCEPT ![i].tabIds = Append(@, tabId)]

NoText == <<>>

MakeTab(id, domain, title, ogType, schemaType) ==
  [id |-> id, domain |-> domain, title |-> title, ogType |-> ogType,
   schemaType |-> schemaType, ogSiteName |-> NoText, applicationName |-> NoText]

\* tabs as organizeTabs hands them over: id, title, the url's host, metadata
TabPool ==
  << MakeTab(1, <<"g","i","t","h","u","b",".","c","o","m">>, <<"f","o","o">>, NoText, NoText),
     MakeTab(2, <<"y","o","u","t","u","b","e",".","c","o","m">>, <<"w","a","t","c","h">>, NoText, NoText),
     MakeTab(3, <<"m","a","i","l",".","g","o","o","g","l","e",".","c","o","m">>, <<"I","n","b","o","x">>, NoText, NoText),
     MakeTab(4, <<"u","n","k","n","o","w","n","s","i","t","e",".","x","y","z">>, <<"H","o","m","e">>, NoText, NoText),
     MakeTab(5, <<"g","i","t","h","u","b",".","c","o","m">>, <<"b","a","r">>, NoText, NoText),
     MakeTab(6, <<"e","x","a","m","p","l","e",".","o","r","g">>, <<"G","i","t","l","a","b"," ","b","l","o","g">>, <<"A","r","t","i","c","l","e">>, NoText) >>

\* tabs on which the rules tie, add up over the fields, or give way to a hint
HeuristicPool ==
  << MakeTab(31, <<"g","i","t","h","u","b",".","c","o","m">>, <<"f","o","o">>, NoText, NoText),
     MakeTab(32, <<"d","o","c","s",".","g","i","t","h","u","b",".","c","o","m">>, <<"x">>, NoText, NoText),
     MakeTab(33, <<"a","w","s","-","n","p","m",".","d","e","v">>, <<"x">>, NoText, NoText),
     MakeTab(34, <<"n","p","m",".","y","o","u","t","u","b","e",".","c","o","m">>, <<"x">>, NoText, NoText),
     MakeTab(35, <<"u","n","k","n","o","w","n","s","i","t","e",".","x","y","z">>, <<"H","o","m","e">>, NoText, NoText),
     MakeTab(36, <<"e","x","a","m","p","l","e",".","o","r","g">>, <<"G","i","t","l","a","b"," ","b","l","o","g">>, <<"A","r","t","i","c","l","e">>, NoText),
     [MakeTab(37, <<"e","x","a","m","p","l","e",".","o","r","g">>, <<"H","o","m","e">>, NoText, NoText) EXCEPT !.ogSiteName = <<"G","i","t","H","u","b">>],
     MakeTab(38, <<"a","w","s",".","n","p","m",".","d","e","v">>, <<"a","w","s">>, NoText, NoText) >>

\* tabCategory of every tab of the pools, computed once
TabCategoryTable ==
  [t \in {TabPool[i] : i \in 1..Len(TabPool)} \cup {HeuristicPool[i] : i \in 1..Len(HeuristicPool)}
     |-> tabCategory(t)]

categoryOfTab(tab) ==
  IF tab \in DOMAIN TabCategoryTable THEN TabCategoryTable[tab] ELSE tabCategory(tab)

RECURSIVE collectCategories(_, _)
collectCategories(tabs, categories) ==
  IF tabs = <<>> THEN categories
  ELSE CHOOSE collected \in
         {collectCategories(Tail(tabs), added) :
            added \in {addToCategory(categories, category, selectColor(category), Head(tabs).id) :
                         category \in {categoryOfTab(Head(tabs))}}} : TRUE

\* returns the groups of { groups }
patternBasedCategorization(tabs, maxGroups) ==
  CHOOSE limited \in {limitGroups(categories, maxGroups) :
                        categories \in {collectCategories(tabs, <<>>)}} : TRUE

\* -------------------------------------------------------- ResponseValidator

\* a mapping value that is not a string (number, null, object): calling
\* toLowerCase on it throws a TypeError
NonString == <<"#nonstring">>

\* cat.toLowerCase() of every valid category
lowerCaseCategories == [i \in 1..Len(VALID_CATEGORIES) |-> toLowerCase(VALID_CATEGORIES[i])]

validCategoryFor(wanted) ==
  LET hits == {i \in 1..Len(VALID_CATEGORIES) : lowerCaseCategories[i] = wanted}
  IN IF hits # {} THEN VALID_CATEGORIES[SetMin(hits)] ELSE Other

\* the label of the model taken as it is
acceptAnyCategoryName(category) == category

validateSingleCategoryName(category) ==
  CHOOSE valid \in {validCategoryFor(wanted) : wanted \in {trim(toLowerCase(category))}} : TRUE

categoryColor(validCategory) ==
  IF IndexOf(VALID_CATEGORIES, validCategory) # 0
  THEN CATEGORY_COLORS[IndexOf(VALID_CATEGORIES, validCategory)]
  ELSE "grey"

tabIdsOf(tabs) == {tabs[i].id : i \in 1..Len(tabs)}

\* for (const [tabIdStr, category] of Object.entries(result)): an entry is
\* [nan, tabId, category], tabId being parseInt(tabIdStr) unless nan
RECURSIVE processEntries(_, _, _, _)
processEntries(entries, validTabIds, groupMap, processedTabIds) ==
  IF entries = <<>>
  THEN [threw |-> FALSE, groupMap |-> groupMap, processedTabIds |-> processedTabIds]
  ELSE LET e == Head(entries)
       IN IF e.nan THEN processEntries(Tail(entries), validTabIds, groupMap, processedTabIds)
          ELSE IF e.tabId \notin validTabIds
               THEN processEntries(Tail(entries), validTabIds, groupMap, processedTabIds)
          ELSE IF e.tabId \in processedTabIds
               THEN processEntries(Tail(entries), validTabIds, groupMap, processedTabIds)
          ELSE IF e.category = NonString
               THEN [threw |-> TRUE, groupMap |-> groupMap,
                     processedTabIds |-> processedTabIds \cup {e.tabId}]
          ELSE CHOOSE processed \in
                 {processEntries(Tail(entries), validTabIds,
                    addToCategory(groupMap, validCategory, categoryColor(validCategory), e.tabId),
                    processedTabIds \cup {e.tabId}) :
                  validCategory \in {validateSingleCategoryName(e.category)}} : TRUE

\* tabs.filter(t => !processedTabIds.has(t.id)).map(t => t.id)
RECURSIVE missingTabIds(_, _)
missingTabIds(tabs, processedTabIds) ==
  IF tabs = <<>> THEN <<>>
  ELSE IF Head(tabs).id \in processedTabIds
       THEN missingTabIds(Tail(tabs), processedTabIds)
       ELSE <<Head(tabs).id>> \o missingTabIds(Tail(tabs), processedTabIds)

\* the missing tabs always put in a new entry
addMissingAsNewEntry(groupMap, missing) ==
  Append(groupMap, [name |-> Other, color |-> "grey", tabIds |-> missing])

\* groupMap.get('Other').tabIds.push(...missing), the entry created if absent
addMissingToOther(groupMap, missing) ==
  LET i == findByName(groupMap, Other)
  IN IF i = 0
     THEN Append(groupMap, [name |-> Other, color |-> "grey", tabIds |-> missing])
     ELSE [groupMap EXCEPT ![i].tabIds = @ \o missing]

\* the threshold without its factor 0.5
tooUnreliableAllMissing(missing, tabs) == Len(missing) > Len(tabs)

\* more than 50% of the tabs are missing
tooUnreliable(missing, tabs) == 2 * Len(missing) > Len(tabs)

\* ---------------------------------------------------------- ModelClassifier

\* Where the first and last bracket of each kind stand in the cleaned response
\* text (-1: absent) decides what is extracted from it.
extraction(r) ==
  IF r.firstBracket # -1 /\ (r.firstBrace = -1 \/ r.firstBracket < r.firstBrace)
  THEN IF r.lastBracket = -1 THEN "Incomplete array in response" ELSE "array"
  ELSE IF r.firstBrace # -1
       THEN IF r.lastBrace = -1 \/ r.lastBrace < r.firstBrace
            THEN "Incomplete object in response"
            ELSE "object"
       ELSE "No valid JSON structure found in response"

extractionThrows(r) == extraction(r) \notin {"array", "object"}

\* retryCount <= 2 in place of retryCount < 2
shouldRetryOnceMore(retryCount) == retryCount <= 2

\* the retry test of the catch block around JSON.parse
shouldRetry(retryCount) == retryCount < 2

\* Object.entries(result) of the parsed object: an array response is wrapped
\* as {"groups": [...]}, whose only key is not a number
groupsKeyEntries == << [nan |-> TRUE, tabId |-> 0, category |-> NonString] >>

entriesOf(r) == IF r.json = "groups" THEN groupsKeyEntries ELSE r.entries

\* the missing tabs are not added
withMissingDropped(groupMap, missing) == groupMap

\* the groups built from a parsed mapping, the missing tabs added to Other
withMissing(groupMap, missing) ==
  IF Len(missing) > 0 THEN addMissingToOther(groupMap, missing) ELSE groupMap

modelGroupsFrom(processed, tabs) ==
  withMissing(processed.groupMap, missingTabIds(tabs, processed.processedTabIds))

modelGroups(tabs, r) ==
  CHOOSE built \in {modelGroupsFrom(processed, tabs) :
                      processed \in {processEntries(entriesOf(r), tabIdsOf(tabs), <<>>, {})}} : TRUE

\* what becomes of a parsed response: a TypeError or too many missing tabs
\* make gpuCategorization fall back
validationOf(processed, tabs) ==
  IF processed.threw THEN "fallback"
  ELSE IF tooUnreliable(missingTabIds(tabs, processed.processedTabIds), tabs) THEN "fallback"
  ELSE "model"

\* an error of the inference call retried like a parse failure
gpuDecisionRetryingErrors(tabs, retryCount, r) ==
  IF r.threw THEN IF shouldRetry(retryCount) THEN "retry" ELSE "fallback"
  ELSE IF extractionThrows(r) THEN "fallback"
  ELSE IF r.json = "invalid"
       THEN IF shouldRetry(retryCount) THEN "retry" ELSE "fallback"
  ELSE validationOf(processEntries(entriesOf(r), tabIdsOf(tabs), <<>>, {}), tabs)

\* an error of the first inference call answered by a second call
gpuDecisionRetryingFirstError(tabs, retryCount, r) ==
  IF r.threw THEN IF retryCount = 0 THEN "retry" ELSE "fallback"
  ELSE IF extractionThrows(r) THEN "fallback"
  ELSE IF r.json = "invalid"
       THEN IF shouldRetry(retryCount) THEN "retry" ELSE "fallback"
  ELSE validationOf(processEntries(entriesOf(r), tabIdsOf(tabs), <<>>, {}), tabs)

\* the parse failure raised to the caller once the retries are used up
gpuDecisionRaising(tabs, retryCount, r) ==
  IF r.threw THEN "fallback"
  ELSE IF extractionThrows(r) THEN "fallback"
  ELSE IF r.json = "invalid"
       THEN IF shouldRetry(retryCount) THEN "retry" ELSE "raise"
  ELSE validationOf(processEntries(entriesOf(r), tabIdsOf(tabs), <<>>, {}), tabs)

\* what gpuCategorization does with one answer of the engine: retry (the
\* recursive call), fallback (patternBasedCategorization) or model (the
\* groups built from the mapping are returned)
gpuDecision(tabs, retryCount, r) ==
  IF r.threw THEN "fallback"
  ELSE IF extractionThrows(r) THEN "fallback"
  ELSE IF r.json = "invalid"
       THEN IF shouldRetry(retryCount) THEN "retry" ELSE "fallback"
  ELSE validationOf(processEntries(entriesOf(r), tabIdsOf(tabs), <<>>, {}), tabs)

gpuOutcome(decision, tabs, maxGroups, r) ==
  [act |-> IF decision = "retry" THEN "retry" ELSE "return",
   via |-> IF decision = "fallback" THEN "pattern"
           ELSE IF decision = "model" THEN "model" ELSE "none",
   groups |-> IF decision = "fallback" THEN patternBasedCategorization(tabs, maxGroups)
              ELSE IF decision = "model" THEN modelGroups(tabs, r) ELSE <<>>]

gpuHandleResponse(tabs, maxGroups, retryCount, r) ==
  CHOOSE outcome \in {gpuOutcome(decision, tabs, maxGroups, r) :
                        decision \in {gpuDecision(tabs, retryCount, r)}} : TRUE

\* ------------------------------------------------------------ sanitizeName

\* the characters \s matches, as far as the model's strings hold them
Whitespace == {" ", "\t", "\n"}

toUpperCaseChar(c) ==
  IF \E i \in 1..Len(LowerChars) : LowerChars[i] = c
  THEN UpperChars[CHOOSE i \in 1..Len(LowerChars) : LowerChars[i] = c]
  ELSE c

\* /^prefix/.test(s)
startsWith(s, prefix) == Len(s) >= Len(prefix) /\ SubSeq(s, 1, Len(prefix)) = prefix

\* the characters of [bcdfghjklmnpqrstvwxyz]
Consonants ==
  {"b","c","d","f","g","h","j","k","l","m","n","p","q","r","s","t","v","w","x","y","z"}

\* the characters of [aeiou]
Vowels == {"a","e","i","o","u"}

\* the length {5,} asks of a run of consonants
GarbledRun == 5

\* substring(0, 15)
MaxNameLength == 15

\* one of badPatterns matches: /^categorize/i, /^uncategor/i, /^misc/i,
\* /^general$/i, /^various$/i, /^mixed$/i, /^unknown$/i
isBadName(cleaned) ==
  \E l \in {toLowerCase(cleaned)} :
    \/ startsWith(l, <<"c","a","t","e","g","o","r","i","z","e">>)
    \/ startsWith(l, <<"u","n","c","a","t","e","g","o","r">>)
    \/ startsWith(l, <<"m","i","s","c">>)
    \/ l \in { <<"g","e","n","e","r","a","l">>, <<"v","a","r","i","o","u","s">>, <<"m","i","x","e","d">>, <<"u","n","k","n","o","w","n">> }

\* /[bcdfghjklmnpqrstvwxyz]{5,}/i.test(cleaned)
hasConsonantRun(cleaned) ==
  \E i \in 1..(Len(cleaned) - GarbledRun + 1) :
    \A k \in i..(i + GarbledRun - 1) : toLowerCaseChar(cleaned[k]) \in Consonants

\* /[aeiou]/i.test(cleaned)
hasVowel(cleaned) == \E i \in 1..Len(cleaned) : toLowerCaseChar(cleaned[i]) \in Vowels

\* the vocabulary compared without lowering the case
vocabularyMatchExactCase(cleaned) ==
  {i \in 1..Len(VALID_CATEGORIES) : VALID_CATEGORIES[i] = cleaned}

\* validCategories.find(cat => cat.toLowerCase() === cleaned.toLowerCase()),
\* as the indices of the categories that match
vocabularyMatch(cleaned) ==
  {i \in 1..Len(VALID_CATEGORIES) : lowerCaseCategories[i] = toLowerCase(cleaned)}

\* replace(/^./, str => str.toUpperCase())
upperFirst(s) == IF s = <<>> THEN s ELSE <<toUpperCaseChar(Head(s))>> \o Tail(s)

\* String.prototype.substring(0, end)
substringTo(s, end) == SubSeq(s, 1, IF end < Len(s) THEN end ELSE Len(s))

\* /^\d+$/.test(s)
allDigits(s) ==
  /\ Len(s) > 0
  /\ \A i \in 1..Len(s) : \E d \in 1..Len(Digits) : Digits[d] = s[i]

\* the name cleaned up when it is no vocabulary name
tidyName(cleaned) ==
  \* whitespace removed, the first character in upper case, 15 characters kept
  substringTo(upperFirst(removeChars(cleaned, Whitespace)), MaxNameLength)

sanitizeCleaned(cleaned, matched, tidy) ==
  IF isBadName(cleaned) THEN Other
  ELSE IF hasConsonantRun(cleaned) \/ ~hasVowel(cleaned) THEN Other
  ELSE IF matched # {} THEN VALID_CATEGORIES[SetMin(matched)]
  ELSE IF Len(tidy) < 2 \/ allDigits(tidy) THEN Other
  ELSE tidy

sanitizeName(name) ==
  CHOOSE sanitized \in
    {sanitizeCleaned(cleaned, vocabularyMatch(cleaned), tidyName(cleaned)) :
       cleaned \in {trim(name)}} : TRUE

\* ------------------------------------------------------ host (chrome) model

\* chrome.tabGroups.TAB_GROUP_ID_NONE
NoGroupId == -1

RECURSIVE SetToSeq(_)
SetToSeq(S) ==
  IF S = {} THEN <<>> ELSE <<SetMin(S)>> \o SetToSeq(S \ {SetMin(S)})

\* chrome.tabs.query({ groupId }): the ids of the tabs of a group
tabsInGroup(tg, groupId) == SetToSeq({t \in DOMAIN tg : tg[t] = groupId})

\* a group lives as long as it holds a tab: the host removes empty groups
removeEmptyGroups(hg, tg) ==
  [g \in {x \in DOMAIN hg : \E t \in DOMAIN tg : tg[t] = x} |-> hg[g]]

\* chrome.tabGroups.query({ windowId }), in ascending id order
queryGroups(hg, windowId) ==
  LET ids == SetToSeq({g \in DOMAIN hg : hg[g].windowId = windowId})
  IN [i \in 1..Len(ids) |-> [id |-> ids[i], title |-> hg[ids[i]].title, color |-> hg[ids[i]].color]]

\* chrome.tabs.group({ tabIds, groupId }) on a live group
addTabsToGroup(host, tabIds, groupId) ==
  LET tg == [t \in DOMAIN host.tabGroup |->
               IF \E i \in 1..Len(tabIds) : tabIds[i] = t THEN groupId ELSE host.tabGroup[t]]
  IN [host EXCEPT !.tabGroup = tg, !.hostGroups = removeEmptyGroups(host.hostGroups, tg)]

\* chrome.tabs.group({ tabIds }) followed by chrome.tabGroups.update(id, { title, color })
createGroupWith(host, tabIds, windowId, title, color) ==
  LET id == host.nextGroupId
      withNew == [g \in DOMAIN host.hostGroups \cup {id} |->
                    IF g = id THEN [title |-> title, color |-> color, windowId |-> windowId]
                    ELSE host.hostGroups[g]]
      moved == addTabsToGroup([host EXCEPT !.hostGroups = withNew], tabIds, id)
  IN [moved EXCEPT !.nextGroupId = id + 1]

\* ------------------------------------------------------ mergeDuplicateGroups

\* the normalized name mergeDuplicateGroups files a group under
mergeName(title) ==
  LET named == IF title = <<>> THEN Other ELSE title
      normalizedName == removeChars(trim(toLowerCase(named)), Whitespace \cup {"-", "_"})
  IN IF normalizedName \in { <<"g","e","n","e","r","a","l">>, <<"m","i","s","c">>, <<"m","i","s","c","e","l","l","a","n","e","o","u","s">> }
     THEN <<"o","t","h","e","r">>
     ELSE normalizedName

\* the normalized names in order of first occurrence (the keys of groupsByName)
RECURSIVE distinctNames(_, _)
distinctNames(groups, seen) ==
  IF groups = <<>> THEN <<>>
  ELSE IF mergeName(Head(groups).title) \in seen
       THEN distinctNames(Tail(groups), seen)
       ELSE <<mergeName(Head(groups).title)>>
              \o distinctNames(Tail(groups), seen \cup {mergeName(Head(groups).title)})

\* chrome.tabs.group of the tabs of a duplicate, counted in totalMerged
moveTabsCounted(host, ids, targetId) ==
  [addTabsToGroup(host, ids, targetId) EXCEPT !.totalMerged = @ + Len(ids)]

\* only the first of the groups to merge gives its tabs
moveAllIntoFirstOnly(host, sources, targetId) ==
  IF sources = <<>> THEN host
  ELSE LET ids == tabsInGroup(host.tabGroup, Head(sources).id)
       IN IF Len(ids) > 0 THEN moveTabsCounted(host, ids, targetId) ELSE host

RECURSIVE moveAllInto(_, _, _)
moveAllInto(host, sources, targetId) ==
  IF sources = <<>> THEN host
  ELSE LET ids == tabsInGroup(host.tabGroup, Head(sources).id)
       IN moveAllInto(IF Len(ids) > 0 THEN moveTabsCounted(host, ids, targetId) ELSE host,
                      Tail(sources), targetId)

\* one entry of groupsByName with more than one group: the group with the most
\* tabs is kept (the sort is stable) and takes the tabs of the others
mergeOneName(host, groups, name) ==
  LET duplicateGroups == SelectSeq(groups, LAMBDA g : mergeName(g.title) = name)
      groupsWithTabCount ==
        sortByTabCount([i \in 1..Len(duplicateGroups) |->
          [id |-> duplicateGroups[i].id, title |-> duplicateGroups[i].title,
           tabIds |-> tabsInGroup(host.tabGroup, duplicateGroups[i].id)]])
      targetGroup == groupsWithTabCount[1]
      renamed == IF toLowerCase(targetGroup.title) = <<"g","e","n","e","r","a","l">>
                 THEN [host EXCEPT !.hostGroups[targetGroup.id].title = Other]
                 ELSE host
  IN IF Len(duplicateGroups) > 1
     THEN moveAllInto(renamed, Tail(groupsWithTabCount), targetGroup.id)
     ELSE host

RECURSIVE mergeNames(_, _, _)
mergeNames(host, groups, names) ==
  IF names = <<>> THEN host
  ELSE mergeNames(mergeOneName(host, groups, Head(names)), groups, Tail(names))

\* the window mergeDuplicateGroups cleans: chrome.windows.getCurrent()
windowToClean(current, target) == current

\* mergeDuplicateGroups(), every window being of type normal
mergeDuplicateGroups(host, windowId) ==
  LET groups == queryGroups(host.hostGroups, windowId)
  IN mergeNames(host, groups, distinctNames(groups, {}))

\* ------------------------------------------------------ cleanupAllDuplicates

\* the normalized name cleanupAllDuplicates files a group under
cleanupName(title) ==
  LET lowered == trim(toLowerCase(IF title = <<>> THEN <<"u","n","t","i","t","l","e","d">> ELSE title))
      normalizedName == removeChars(lowered, Whitespace \cup {"-", "_"})
  IN IF normalizedName \in { <<"g","e","n","e","r","a","l">>, <<"m","i","s","c">>, <<"m","i","s","c","e","l","l","a","n","e","o","u","s">>, <<"u","n","t","i","t","l","e","d">>, <<>> }
     THEN <<"o","t","h","e","r">>
     ELSE normalizedName

\* group.title === 'General' || group.title === 'Misc' ? 'Other' : group.title
consolidatedTitle(title) ==
  IF title \in { <<"G","e","n","e","r","a","l">>, <<"M","i","s","c">> } THEN Other ELSE title

\* the keys of tabsByGroupName in order of first occurrence
RECURSIVE distinctCleanupNames(_, _)
distinctCleanupNames(groups, seen) ==
  IF groups = <<>> THEN <<>>
  ELSE IF cleanupName(Head(groups).title) \in seen
       THEN distinctCleanupNames(Tail(groups), seen)
       ELSE <<cleanupName(Head(groups).title)>>
              \o distinctCleanupNames(Tail(groups), seen \cup {cleanupName(Head(groups).title)})

\* data.tabs of one name: the tabs of its groups as the first loop found them
RECURSIVE tabsOfGroups(_, _)
tabsOfGroups(tg, groups) ==
  IF groups = <<>> THEN <<>>
  ELSE tabsInGroup(tg, Head(groups).id) \o tabsOfGroups(tg, Tail(groups))

\* chrome.tabs.ungroup(tabIds)
ungroupTabs(host, tabIds) ==
  LET tg == [t \in DOMAIN host.tabGroup |->
               IF \E i \in 1..Len(tabIds) : tabIds[i] = t THEN NoGroupId ELSE host.tabGroup[t]]
  IN [host EXCEPT !.tabGroup = tg, !.hostGroups = removeEmptyGroups(host.hostGroups, tg)]

\* only a name whose title is Other is consolidated
needsConsolidationOtherOnly(count, originalTitle) == originalTitle = Other

\* the negation of `data.groups.length <= 1 && data.originalTitle !== 'Other'`
needsConsolidation(count, originalTitle) == count > 1 \/ originalTitle = Other

\* one entry of tabsByGroupName: its tabs are ungrouped and put in one new
\* group of the current window, titled and coloured like the first group
consolidateOneName(st, found, groups, windowId, name) ==
  LET same == SelectSeq(groups, LAMBDA g : cleanupName(g.title) = name)
      originalTitle == consolidatedTitle(same[1].title)
      allTabIds == tabsOfGroups(found, same)
      color == IF same[1].color # "" THEN same[1].color ELSE "grey"
  IN IF needsConsolidation(Len(same), originalTitle)
     THEN [host |-> createGroupWith(ungroupTabs(st.host, allTabIds), allTabIds, windowId,
                                    consolidatedTitle(originalTitle), color),
           processed |-> st.processed + Len(allTabIds),
           consolidated |-> st.consolidated + 1]
     ELSE st

RECURSIVE consolidateNames(_, _, _, _, _)
consolidateNames(st, found, groups, windowId, names) ==
  IF names = <<>> THEN st
  ELSE consolidateNames(consolidateOneName(st, found, groups, windowId, Head(names)),
                        found, groups, windowId, Tail(names))

\* cleanupAllDuplicates() on a host that accepts every call, every window
\* being of type normal
cleanupAllDuplicates(host, windowId) ==
  LET allGroups == queryGroups(host.hostGroups, windowId)
  IN consolidateNames([host |-> host, processed |-> 0, consolidated |-> 0], host.tabGroup,
                      allGroups, windowId, distinctCleanupNames(allGroups, {}))

\* ` (${i + 1})` for the second to the ninth group of a name
renameSuffix(i) ==
  <<" ", "(", <<"1","2","3","4","5","6","7","8","9">>[i + 1], ")">>

\* the inner catch: every group of the name but the first is retitled with a
\* suffix; the update of a group that exists no more is rejected and logged
RECURSIVE renameDuplicates(_, _, _, _)
renameDuplicates(host, same, originalTitle, i) ==
  IF i > Len(same) THEN host
  ELSE LET id == same[i].id
           renamed ==
             IF id \in DOMAIN host.hostGroups
             THEN [host EXCEPT !.hostGroups[id].title = originalTitle \o renameSuffix(i - 1)]
             ELSE host
       IN renameDuplicates(renamed, same, originalTitle, i + 1)

\* one entry of tabsByGroupName on a host that rejects one of the three calls:
\* chrome.tabs.ungroup, chrome.tabs.group or chrome.tabGroups.update
consolidateOneNameRejecting(st, found, groups, windowId, name, rejected) ==
  LET same == SelectSeq(groups, LAMBDA g : cleanupName(g.title) = name)
      originalTitle == consolidatedTitle(same[1].title)
      allTabIds == tabsOfGroups(found, same)
      ungrouped == ungroupTabs(st.host, allTabIds)
      reached ==
        IF rejected = "ungroup" THEN st.host
        ELSE IF rejected = "group" THEN ungrouped
        ELSE createGroupWith(ungrouped, allTabIds, windowId, <<>>, "grey")
  IN IF needsConsolidation(Len(same), originalTitle)
     THEN [st EXCEPT !.host = renameDuplicates(reached, same, originalTitle, 2)]
     ELSE st

\* the loop over tabsByGroupName with the calls for one name rejected
RECURSIVE consolidateNamesRejecting(_, _, _, _, _, _, _)
consolidateNamesRejecting(st, found, groups, windowId, names, failing, rejected) ==
  IF names = <<>> THEN st
  ELSE consolidateNamesRejecting(
         IF Head(names) = failing
         THEN consolidateOneNameRejecting(st, found, groups, windowId, Head(names), rejected)
         ELSE consolidateOneName(st, found, groups, windowId, Head(names)),
         found, groups, windowId, Tail(names), failing, rejected)

\* cleanupAllDuplicates() on a host that rejects a call made for one name
cleanupAllDuplicatesRejecting(host, windowId, failing, rejected) ==
  LET allGroups == queryGroups(host.hostGroups, windowId)
  IN consolidateNamesRejecting([host |-> host, processed |-> 0, consolidated |-> 0],
                               host.tabGroup, allGroups, windowId,
                               distinctCleanupNames(allGroups, {}), failing, rejected)

\* --------------------------------------------------------------- createGroups

mapSet(m, k, v) == (k :> v) @@ m

NoGroup == [id |-> NoGroupId, title |-> <<>>, color |-> ""]

mapGet(m, k) == IF k \in DOMAIN m THEN m[k] ELSE NoGroup

EmptyMap == [k \in {} |-> NoGroup]

\* category.name.toLowerCase().trim()
normalizedCategoryName(name) == trim(toLowerCase(name))

\* .replace(/\s+/g, '')
normalizedNoSpace(name) == removeChars(normalizedCategoryName(name), Whitespace)

\* .replace(/[\s-_]+/g, '')
normalizedNoSpecial(name) ==
  removeChars(normalizedCategoryName(name), Whitespace \cup {"-", "_"})

\* the name a category is remembered under in processedCategories
processedKey(name) == normalizedNoSpace(name)

\* the keys one existing group is filed under
RECURSIVE buildExistingGroupsByName(_, _)
buildExistingGroupsByName(existingGroups, m) ==
  IF existingGroups = <<>> THEN m
  ELSE LET group == Head(existingGroups)
           normalizedName == normalizedCategoryName(group.title)
           m1 == mapSet(m, normalizedName, group)
           m2 == mapSet(m1, normalizedNoSpace(group.title), group)
           m3 == mapSet(m2, normalizedNoSpecial(group.title), group)
           m4 == IF normalizedName \in { <<"o","t","h","e","r">>, <<"m","i","s","c">>, <<"g","e","n","e","r","a","l">> }
                 THEN mapSet(mapSet(mapSet(mapSet(m3, <<"o","t","h","e","r">>, group), <<"m","i","s","c">>, group),
                                    <<"g","e","n","e","r","a","l">>, group), <<"m","i","s","c","e","l","l","a","n","e","o","u","s">>, group)
                 ELSE m3
       IN buildExistingGroupsByName(Tail(existingGroups),
                                    IF group.title # <<>> THEN m4 ELSE m)

\* the lookup without its third key
lookupWithoutNoSpecial(m, name) ==
  IF mapGet(m, normalizedCategoryName(name)) # NoGroup
  THEN mapGet(m, normalizedCategoryName(name))
  ELSE mapGet(m, normalizedNoSpace(name))

\* existingGroupsByName.get(a) || .get(b) || .get(c)
lookupExistingGroup(m, name) ==
  IF mapGet(m, normalizedCategoryName(name)) # NoGroup
  THEN mapGet(m, normalizedCategoryName(name))
  ELSE IF mapGet(m, normalizedNoSpace(name)) # NoGroup
       THEN mapGet(m, normalizedNoSpace(name))
       ELSE mapGet(m, normalizedNoSpecial(name))

\* the window a tab is in; grouping never moves a tab to another window here
windowIdOf(tabId) == IF tabId < 20 THEN 1 ELSE 2

\* tabs that are in tabMap and in the target window
validTabIdsOf(tabIds, suppliedTabs, targetWindowId) ==
  SelectSeq(tabIds, LAMBDA id :
    /\ \E i \in 1..Len(suppliedTabs) : suppliedTabs[i] = id
    /\ windowIdOf(id) = targetWindowId)

\* category.color || this.selectColor(category.name)
colorOf(category) ==
  IF category.color # "" THEN category.color ELSE hashColor(category.name)

\* the host calls of one loop pass that may be rejected: tabGroups.get or
\* tabs.query on the matched group, tabs.group into it, tabs.group creating a
\* group, tabGroups.update of the created group
HostFaults == {"get", "add", "create", "update"}

\* the error of the matched group raised to the catch block of the category
recoverFromStaleRaising(createdAnew, raised) == raised

\* the catch block around the use of the matched group: the group is created anew
recoverFromStale(createdAnew, raised) == createdAnew

\* One pass of the loop over categories.groups, the host rejecting the calls
\* named in fault. st holds the host state and the locals of createGroups; the
\* result adds what was done (action, groupId).
processCategoryUnder(fault, st, category, suppliedTabs, targetWindowId) ==
  LET validTabIds == validTabIdsOf(category.tabIds, suppliedTabs, targetWindowId)
      existingGroup == lookupExistingGroup(st.byName, category.name)
      usable == /\ existingGroup.id \in DOMAIN st.host.hostGroups
                /\ st.host.hostGroups[existingGroup.id].windowId = targetWindowId
                /\ "get" \notin fault
                /\ "add" \notin fault
      merged == addTabsToGroup(st.host, validTabIds, existingGroup.id)
      created == createGroupWith(st.host, validTabIds, targetWindowId,
                                 category.name, colorOf(category))
      untitled == createGroupWith(st.host, validTabIds, targetWindowId, <<>>, "grey")
      groupId == IF existingGroup # NoGroup /\ usable THEN existingGroup.id
                 ELSE st.host.nextGroupId
      stored == [id |-> groupId, title |-> category.name, color |-> category.color]
      entry == [id |-> groupId, name |-> category.name,
                color |-> IF existingGroup # NoGroup THEN existingGroup.color
                          ELSE category.color,
                tabCount |-> Len(validTabIds), tabs |-> validTabIds]
      done(action, host) ==
        [host |-> host,
         byName |-> mapSet(mapSet(st.byName, normalizedCategoryName(category.name), stored),
                           normalizedNoSpace(category.name), stored),
         processed |-> st.processed \cup {processedKey(category.name)},
         groups |-> Append(st.groups, entry),
         action |-> action, groupId |-> groupId]
      skipped(action, processed) ==
        [host |-> st.host, byName |-> st.byName, processed |-> processed,
         groups |-> st.groups, action |-> action, groupId |-> NoGroupId]
      failed(host) ==
        [host |-> host, byName |-> st.byName,
         processed |-> st.processed \cup {processedKey(category.name)},
         groups |-> st.groups, action |-> "failed", groupId |-> NoGroupId]
      createNew(action) ==
        IF "create" \in fault THEN failed(st.host)
        ELSE IF "update" \in fault THEN failed(untitled)
        ELSE done(action, created)
  IN IF Len(category.tabIds) = 0 THEN skipped("empty", st.processed)
     ELSE IF processedKey(category.name) \in st.processed
          THEN skipped("skipped duplicate", st.processed)
     ELSE IF Len(validTabIds) = 0
          THEN skipped("no valid tabs", st.processed \cup {processedKey(category.name)})
     ELSE IF existingGroup # NoGroup
          THEN IF usable THEN done("merged into existing", merged)
               ELSE recoverFromStale(createNew("created new (existing unavailable)"),
                                     failed(st.host))
     ELSE createNew("created new")

\* one pass of the loop, every host call succeeding
processCategory(st, category, suppliedTabs, targetWindowId) ==
  processCategoryUnder({}, st, category, suppliedTabs, targetWindowId)

\* ------------------------------------------------------- assignTabToGroup

\* groups.map(g => ({ id, name: g.title || 'Untitled', color }))
existingCategoriesOf(groups) ==
  [i \in 1..Len(groups) |->
     [id |-> groups[i].id,
      name |-> IF groups[i].title = <<>> THEN <<"U","n","t","i","t","l","e","d">> ELSE groups[i].title,
      color |-> groups[i].color]]

\* the domainPatterns table of patternFindGroup: lower-case group name ->
\* alternatives of its regular expression (all under /i)
domainPatterns ==
  << [name |-> <<"d","e","v">>, alts |-> << <<"g","i","t","h","u","b">>, <<"g","i","t","l","a","b">>, <<"s","t","a","c","k","o","v","e","r","f","l","o","w">>, <<"l","o","c","a","l","h","o","s","t">> >>],
     [name |-> <<"s","o","c","i","a","l">>,
      alts |-> << <<"f","a","c","e","b","o","o","k">>, <<"t","w","i","t","t","e","r">>, <<"i","n","s","t","a","g","r","a","m">>, <<"l","i","n","k","e","d","i","n">>, <<"r","e","d","d","i","t">> >>],
     [name |-> <<"e","n","t","e","r","t","a","i","n","m","e","n","t">>, alts |-> << <<"y","o","u","t","u","b","e">>, <<"n","e","t","f","l","i","x">>, <<"s","p","o","t","i","f","y">>, <<"t","w","i","t","c","h">> >>],
     [name |-> <<"w","o","r","k">>, alts |-> << <<"g","m","a","i","l">>, <<"o","u","t","l","o","o","k">>, <<"o","f","f","i","c","e">>, <<"d","o","c","s",".","g","o","o","g","l","e">> >>],
     [name |-> <<"c","l","o","u","d">>, alts |-> << <<"a","w","s">>, <<"a","z","u","r","e">>, <<"g","c","p">>, <<"c","o","n","s","o","l","e">> >>],
     [name |-> <<"s","h","o","p","p","i","n","g">>, alts |-> << <<"a","m","a","z","o","n">>, <<"e","b","a","y">>, <<"e","t","s","y">>, <<"w","a","l","m","a","r","t">> >>],
     [name |-> <<"n","e","w","s">>, alts |-> << <<"c","n","n">>, <<"b","b","c">>, <<"r","e","u","t","e","r","s">>, <<"b","l","o","o","m","b","e","r","g">> >>] >>

\* domainPatterns[groupName].test(tab.domain) || ....test(tab.title), false
\* when the table has no entry for groupName
groupPatternFits(groupName, tab) ==
  \E k \in 1..Len(domainPatterns) :
    /\ domainPatterns[k].name = groupName
    /\ \/ matchLength(tab.domain, domainPatterns[k].alts) > 0
       \/ matchLength(tab.title, domainPatterns[k].alts) > 0

\* the index of the group patternFindGroup returns, 0 for null
patternFindGroup(tab, existingGroups) ==
  LET fits == {i \in 1..Len(existingGroups) :
                 groupPatternFits(toLowerCase(existingGroups[i].name), tab)}
  IN IF fits = {} THEN 0 ELSE SetMin(fits)

\* the index of the group gpuFindGroup returns for an answer of the engine
gpuFindGroup(tab, existingGroups, answer) ==
  IF answer.threw THEN patternFindGroup(tab, existingGroups)
  ELSE LET groupName == toLowerCase(trim(answer.content))
           named == {i \in 1..Len(existingGroups) :
                       toLowerCase(existingGroups[i].name) = groupName}
       IN IF groupName = <<"n","o","n","e">> THEN 0
          ELSE IF named = {} THEN 0 ELSE SetMin(named)

findBestGroup(gpu, tab, existingGroups, answer) ==
  IF gpu THEN gpuFindGroup(tab, existingGroups, answer)
  ELSE patternFindGroup(tab, existingGroups)

\* the tests of patternCategorizeTab, in order, on the lower-case domain
domainCategories ==
  << [alts |-> << <<"g","i","t","h","u","b">>, <<"g","i","t","l","a","b">>, <<"s","t","a","c","k","o","v","e","r","f","l","o","w">> >>, name |-> <<"D","e","v">>, color |-> "blue"],
     [alts |-> << <<"y","o","u","t","u","b","e">>, <<"n","e","t","f","l","i","x">>, <<"s","p","o","t","i","f","y">> >>, name |-> <<"E","n","t","e","r","t","a","i","n","m","e","n","t">>, color |-> "red"],
     [alts |-> << <<"f","a","c","e","b","o","o","k">>, <<"t","w","i","t","t","e","r">>, <<"i","n","s","t","a","g","r","a","m">> >>, name |-> <<"S","o","c","i","a","l">>, color |-> "pink"],
     [alts |-> << <<"a","w","s">>, <<"a","z","u","r","e">>, <<"g","c","p">> >>, name |-> <<"C","l","o","u","d">>, color |-> "cyan"],
     [alts |-> << <<"g","m","a","i","l">>, <<"o","u","t","l","o","o","k">>, <<"d","o","c","s",".","g","o","o","g","l","e">> >>, name |-> <<"W","o","r","k">>, color |-> "green"] >>

patternCategorizeTab(tab) ==
  LET hits == {k \in 1..Len(domainCategories) :
                 matchLength(toLowerCase(tab.domain), domainCategories[k].alts) > 0}
  IN IF hits = {} THEN [name |-> Other, color |-> "grey"]
     ELSE [name |-> domainCategories[SetMin(hits)].name,
           color |-> domainCategories[SetMin(hits)].color]

gpuCategorizeTab(tab, answer) ==
  IF answer.threw THEN patternCategorizeTab(tab)
  ELSE [name |-> sanitizeName(trim(answer.content)),
        color |-> selectColor(trim(answer.content))]

categorizeTab(gpu, tab, answer) ==
  IF gpu THEN gpuCategorizeTab(tab, answer) ELSE patternCategorizeTab(tab)

\* TabGroupManager.createNewGroup([tab], category), the host accepting the calls
createNewGroup(host, tab, windowId, category) ==
  createGroupWith(host, <<tab.id>>, windowId, category.name, category.color)

\* assignTabToGroup once the groups of the tab's window are known to exist:
\* what is done and the browser afterwards
assignAmong(host, gpu, tab, existingGroups, limit, found, named) ==
  LET bestGroup == findBestGroup(gpu, tab, existingGroups, found)
  IN IF bestGroup # 0
     THEN [done |-> "grouped",
           host |-> addTabsToGroup(host, <<tab.id>>, existingGroups[bestGroup].id)]
     ELSE IF Len(existingGroups) < limit
          THEN [done |-> "created",
                host |-> createNewGroup(host, tab, windowIdOf(tab.id),
                                        categorizeTab(gpu, tab, named))]
          ELSE [done |-> "left", host |-> host]

\* ------------------------------------------------------------------- state

VARIABLES
  \* LocalLLM.categorizeTabs
  tabs,        \* the tabs argument
  maxGroups,   \* the maxGroups argument
  mode,        \* LocalLLM.mode
  engine,      \* LocalLLM.engine is set
  pc,          \* idle, requesting (awaiting the engine), returned
  retryCount,  \* gpuCategorization: the retryCount argument of the running call
  requests,    \* inference requests issued so far
  response,    \* the engine's latest answer
  result,      \* the groups categorizeTabs returned
  via,         \* how the result was made: model, pattern
  \* LocalLLM.limitGroups as a function of its arguments
  limitInput, limitMax, limitOutput, limitPc,
  \* the browser
  currentWindow, \* chrome.windows.getCurrent().id
  tabGroup,      \* tab id -> group id, NoGroupId when ungrouped
  hostGroups,    \* live group id -> [title, color, windowId]
  nextGroupId,   \* the id the host gives the next group
  \* TabGroupManager.createGroups
  categories,    \* categories.groups
  suppliedTabs,  \* the ids of the tabs argument, in order
  cgPc,          \* idle, loop, returned
  run,           \* how many times createGroups was called
  runStartGroupId,       \* nextGroupId when the running call began
  targetWindowId,
  existingGroups,        \* the answer of chrome.tabGroups.query
  existingGroupsByName,
  processedCategories,
  idx,           \* the category the loop is at
  groups,        \* the list createGroups returns
  log,           \* per category of this call: what was done
  \* TabGroupManager.mergeDuplicateGroups called on its own
  mergeCalls,    \* how many calls have returned
  mergeReturned, \* what the latest call returned
  \* TabGroupManager.cleanupAllDuplicates
  cleanupCalls,    \* how many calls have returned
  cleanupReturned, \* { processed, consolidated } of the latest call
  \* LocalLLM.sanitizeName as a function of its argument
  sanitizeInput, sanitizeOutput, sanitizePc,
  \* TooTabbedTooFurious.assignTabToGroup
  newTab,        \* the tab argument
  assignPc,      \* idle, grouped (added to a group), created, left (no group
                 \* fits and the limit is reached), organizeTabs (handed over)
  \* LocalLLM.initialize
  ready, loading, loadError, \* the fields of the same names
  navigatorGpu,    \* navigator.gpu is there
  initializeCalls, \* how many initialize() calls were made
  loads,           \* how many times CreateMLCEngine was called
  loadsPending,    \* the calls awaiting CreateMLCEngine
  resolvedCalls,   \* how many initialize() calls have resolved
  resolved,        \* how the latest one resolved: guard, gpu, pattern, error
  status,          \* what getStatus() last returned
  \* StorageManager: the group history
  storedHistory,   \* chrome.storage.local under tttf_group_history
  clock,           \* Date.now()
  saveCalls,       \* how many saveGroupHistory calls were made
  savePc,          \* per call in flight: idle, read (history fetched, entry
                   \* added, about to be stored)
  saveHistory,     \* per call in flight: its history array
  historyWriter,   \* who wrote storedHistory last: none, importData, saveGroupHistory
  \* StorageManager: the settings, and the service worker's copy of them
  storedSettings,  \* chrome.storage.local under tttf_settings
  isAutoMode,      \* TooTabbedTooFurious.isAutoMode
  thisMaxGroups,   \* TooTabbedTooFurious.maxGroups
  requestsMade,    \* how many settings requests were received
  reqPc,           \* per request in flight: idle, getSettings (awaiting the
                   \* read), set (awaiting the write)
  request,         \* per request in flight: the message
  current,         \* per request in flight: what getSettings returned
  previous,        \* per request in flight: the in-memory pair when it arrived
  answered,        \* the latest sendResponse argument, and whose it was
  \* a second organizeTabs run beside the one createGroups is followed for
  otherRuns,       \* how many createGroups calls of the second run returned
  \* assignTabToGroup for tab events handled side by side
  eventTab,        \* per event: the tab argument
  eventPc,         \* per event: idle, queried (the groups are known), grouped,
                   \* created, left, organizeTabs
  eventGroups      \* per event: the answer of chrome.tabGroups.query

classifyVars == <<tabs, maxGroups, mode, engine, pc, retryCount, requests, response, result, via>>

limitVars == <<limitInput, limitMax, limitOutput, limitPc>>

hostVars == <<currentWindow, tabGroup, hostGroups, nextGroupId>>

reconcileVars ==
  <<categories, suppliedTabs, cgPc, run, runStartGroupId, targetWindowId, existingGroups,
    existingGroupsByName, processedCategories, idx, groups, log>>

cleanupVars == <<mergeCalls, mergeReturned, cleanupCalls, cleanupReturned>>

sanitizeVars == <<sanitizeInput, sanitizeOutput, sanitizePc>>

assignVars == <<newTab, assignPc>>

initializeVars ==
  <<ready, loading, loadError, navigatorGpu, initializeCalls, loads, loadsPending,
    resolvedCalls, resolved, status>>

storageVars == <<storedHistory, clock, saveCalls, savePc, saveHistory, historyWriter>>

settingsVars ==
  <<storedSettings, isAutoMode, thisMaxGroups, requestsMade, reqPc, request, current,
    previous, answered>>

overlapVars == <<otherRuns, eventTab, eventPc, eventGroups>>

serviceVars == <<initializeVars, storageVars, settingsVars, overlapVars>>

\* the variables of the tab grouping operations, but for LocalLLM's own
groupingVars == <<limitVars, hostVars, reconcileVars, cleanupVars, sanitizeVars, assignVars>>

vars ==
  <<classifyVars, limitVars, hostVars, reconcileVars, cleanupVars, sanitizeVars, assignVars,
    serviceVars>>

\* ------------------------------------------------------------------ inputs

MaxTabs == 3

MaxEntries == 2

MaxGroupsChoices == {1, 2, 5}

\* up to MaxTabs consecutive tabs of the pool
TabStarts == {1, 4}

TabLists ==
  UNION {{SubSeq(TabPool, a, a + n - 1) : a \in {s \in TabStarts : s + n - 1 <= Len(TabPool)}} :
         n \in 1..MaxTabs}
    \cup {<<>>}

\* an id the model invents
HallucinatedId == 99

Labels == { <<" ","d","e","v"," ">>, <<"N","e","w","s">>, <<"B","l","a","h">> }

Entry(tabId, category) == [nan |-> FALSE, tabId |-> tabId, category |-> category]

\* the lists of one to n entries with a label for a key, and the empty list
RECURSIVE stringEntries(_, _)
stringEntries(n, keys) ==
  IF n = 0 THEN {<<>>}
  ELSE [1..n -> [nan : {FALSE}, tabId : keys, category : Labels]] \cup stringEntries(n - 1, keys)

\* mappings of up to MaxEntries entries whose values are strings, and
\* mappings with a value that is not a string, alone or after a good entry
EntriesFor(ts) ==
  LET keys == tabIdsOf(ts) \cup {HallucinatedId}
  IN stringEntries(MaxEntries, keys)
     \cup {<<Entry(k, NonString)>> : k \in keys}
     \cup {<<Entry(j, <<"N","e","w","s">>), Entry(k, NonString)>> : j \in keys, k \in keys}

NoEntries == <<>>

Shape(firstBrace, firstBracket, lastBrace, lastBracket) ==
  [firstBrace |-> firstBrace, firstBracket |-> firstBracket,
   lastBrace |-> lastBrace, lastBracket |-> lastBracket]

Answer(threw, shape, json, entries) ==
  [threw |-> threw, firstBrace |-> shape.firstBrace, firstBracket |-> shape.firstBracket,
   lastBrace |-> shape.lastBrace, lastBracket |-> shape.lastBracket,
   json |-> json, entries |-> entries]

NoShape == Shape(-1, -1, -1, -1)

ObjectShape == Shape(0, -1, 9, -1)

\* what the engine may do with one request: throw, or answer a text with no
\* bracket, with an unclosed bracket, with an array or an object that does
\* not parse, with a groups array, with a groups object, or with a mapping
AnswersFor(ts) ==
  [threw : {FALSE}, firstBrace : {ObjectShape.firstBrace}, firstBracket : {ObjectShape.firstBracket},
   lastBrace : {ObjectShape.lastBrace}, lastBracket : {ObjectShape.lastBracket},
   json : {"mapping"}, entries : EntriesFor(ts)]
  \cup {Answer(TRUE, NoShape, "invalid", NoEntries)}
  \cup {Answer(FALSE, s, "invalid", NoEntries) :
          s \in {NoShape, Shape(-1, 0, -1, -1), Shape(0, -1, -1, -1), Shape(4, -1, 2, -1),
                 Shape(1, 0, 8, 9), ObjectShape, Shape(0, 3, 9, -1)}}
  \cup {Answer(FALSE, s, "groups", NoEntries) : s \in {Shape(1, 0, 8, 9), Shape(0, 10, 19, 18)}}

NoResponse == Answer(FALSE, NoShape, "none", NoEntries)

\* ------------------------------------------- parts a specification leaves idle

ClassifyIdle ==
  /\ tabs = <<>> /\ maxGroups = 5 /\ mode = "pattern" /\ engine = FALSE
  /\ pc = "idle" /\ retryCount = 0 /\ requests = 0 /\ response = NoResponse
  /\ result = <<>> /\ via = "none"

LimitIdle ==
  /\ limitInput = <<>> /\ limitMax = 5 /\ limitOutput = <<>> /\ limitPc = "idle"

EmptyHost ==
  /\ currentWindow = 1
  /\ tabGroup = [t \in {} |-> NoGroupId]
  /\ hostGroups = [g \in {} |-> NoGroup]
  /\ nextGroupId = 1

ReconcileIdle ==
  /\ categories = <<>> /\ suppliedTabs = <<>> /\ cgPc = "idle" /\ run = 0
  /\ runStartGroupId = 0 /\ targetWindowId = 0 /\ existingGroups = <<>>
  /\ existingGroupsByName = EmptyMap /\ processedCategories = {} /\ idx = 0
  /\ groups = <<>> /\ log = <<>>

NothingConsolidated == [processed |-> 0, consolidated |-> 0]

CleanupIdle ==
  /\ mergeCalls = 0 /\ mergeReturned = 0
  /\ cleanupCalls = 0 /\ cleanupReturned = NothingConsolidated

SanitizeIdle == sanitizeInput = <<>> /\ sanitizeOutput = <<>> /\ sanitizePc = "idle"

NoTab == [id |-> 0, domain |-> <<>>, title |-> <<>>]

AssignIdle == newTab = NoTab /\ assignPc = "idle"

NoStatus == [status |-> "none", message |-> "none"]

\* the object after a successful initialize(), with nothing of it observed
InitializeIdle ==
  /\ ready = TRUE /\ loading = FALSE /\ loadError = "null" /\ navigatorGpu = FALSE
  /\ initializeCalls = 0 /\ loads = 0 /\ loadsPending = 0
  /\ resolvedCalls = 0 /\ resolved = "none" /\ status = NoStatus

SaveCallers == 1..2

FirstTimestamp == 100

StorageIdle ==
  /\ storedHistory = <<>> /\ clock = FirstTimestamp /\ saveCalls = 0
  /\ savePc = [c \in SaveCallers |-> "idle"]
  /\ saveHistory = [c \in SaveCallers |-> <<>>]
  /\ historyWriter = "none"

Handlers == 1..2

\* the store holds a list of no or one settings object
Absent == <<>>

NoRequest == [action |-> "none", value |-> FALSE]

NoAnswer == [handler |-> 0, success |-> FALSE]

\* the settings getSettings answers when nothing is stored or the read fails
defaultSettings ==
  [autoMode |-> FALSE, maxGroups |-> 5, llmModel |-> "local", theme |-> "default"]

SettingsIdle ==
  /\ storedSettings = Absent /\ isAutoMode = FALSE /\ thisMaxGroups = 5
  /\ requestsMade = 0
  /\ reqPc = [h \in Handlers |-> "idle"]
  /\ request = [h \in Handlers |-> NoRequest]
  /\ current = [h \in Handlers |-> defaultSettings]
  /\ previous = [h \in Handlers |-> [isAutoMode |-> FALSE, maxGroups |-> 5]]
  /\ answered = NoAnswer

TabEvents == 1..2

OverlapIdle ==
  /\ otherRuns = 0
  /\ eventTab = [e \in TabEvents |-> NoTab]
  /\ eventPc = [e \in TabEvents |-> "idle"]
  /\ eventGroups = [e \in TabEvents |-> <<>>]

ServiceIdle == InitializeIdle /\ StorageIdle /\ SettingsIdle /\ OverlapIdle

OthersIdle == CleanupIdle /\ SanitizeIdle /\ AssignIdle /\ ServiceIdle

\* ------------------------------------------------------------ categorizeTabs

InitClassify ==
  /\ tabs \in TabLists
  /\ maxGroups \in MaxGroupsChoices
  /\ \E m \in {"gpu", "pattern"} : mode = m /\ engine = (m = "gpu")
  /\ pc = "idle"
  /\ retryCount = 0
  /\ requests = 0
  /\ response = NoResponse
  /\ result = <<>>
  /\ via = "none"
  /\ LimitIdle /\ EmptyHost /\ ReconcileIdle /\ OthersIdle

\* categorizeTabs in gpu mode: gpuCategorization builds the prompt and awaits
\* engine.chat.completions.create
CategorizeTabsGpu ==
  /\ pc = "idle"
  /\ mode = "gpu" /\ engine
  /\ pc' = "requesting"
  /\ requests' = requests + 1
  /\ UNCHANGED <<tabs, maxGroups, mode, engine, retryCount, response, result, via>>
  /\ UNCHANGED <<limitVars, hostVars, reconcileVars, cleanupVars, sanitizeVars, assignVars, serviceVars>>

\* categorizeTabs in any other mode
CategorizeTabsPattern ==
  /\ pc = "idle"
  /\ ~(mode = "gpu" /\ engine)
  /\ pc' = "returned"
  /\ result' = patternBasedCategorization(tabs, maxGroups)
  /\ via' = "pattern"
  /\ UNCHANGED <<tabs, maxGroups, mode, engine, retryCount, requests, response>>
  /\ UNCHANGED <<limitVars, hostVars, reconcileVars, cleanupVars, sanitizeVars, assignVars, serviceVars>>

\* the engine answers and the parse fails with retries left: the recursive
\* call issues the next request
RetryRequest ==
  /\ pc = "requesting"
  /\ response' \in AnswersFor(tabs)
  /\ gpuDecision(tabs, retryCount, response') = "retry"
  /\ retryCount' = retryCount + 1
  /\ requests' = requests + 1
  /\ UNCHANGED <<tabs, maxGroups, mode, engine, pc, result, via>>
  /\ UNCHANGED <<limitVars, hostVars, reconcileVars, cleanupVars, sanitizeVars, assignVars, serviceVars>>

\* the engine throws or answers, and gpuCategorization returns
ReturnResult ==
  /\ pc = "requesting"
  /\ response' \in AnswersFor(tabs)
  /\ \E h \in {gpuHandleResponse(tabs, maxGroups, retryCount, response')} :
       /\ h.act = "return"
       /\ result' = h.groups
       /\ via' = h.via
  /\ pc' = "returned"
  /\ UNCHANGED <<tabs, maxGroups, mode, engine, retryCount, requests>>
  /\ UNCHANGED <<limitVars, hostVars, reconcileVars, cleanupVars, sanitizeVars, assignVars, serviceVars>>

NextClassify ==
  \/ CategorizeTabsGpu
  \/ CategorizeTabsPattern
  \/ ReturnResult
  \/ RetryRequest

SpecClassify == InitClassify /\ [][NextClassify]_vars

\* every request is settled: the awaited promise of the engine resolves or
\* rejects, and the synchronous code after it runs to its return
SpecClassifyLive == SpecClassify /\ WF_vars(NextClassify)

\* ------------------------------------------- categorizeTabs on five tabs

\* tabs 1 to 5 at github.com/foo, youtube.com/watch, mail.google.com,
\* unknownsite.xyz and github.com/bar
ExampleTabs == SubSeq(TabPool, 1, 5)

InitExample ==
  /\ tabs = ExampleTabs
  /\ maxGroups \in MaxGroupsChoices
  /\ \E m \in {"gpu", "pattern"} : mode = m /\ engine = (m = "gpu")
  /\ pc = "idle"
  /\ retryCount = 0
  /\ requests = 0
  /\ response = NoResponse
  /\ result = <<>>
  /\ via = "none"
  /\ LimitIdle /\ EmptyHost /\ ReconcileIdle /\ OthersIdle

SpecExample == InitExample /\ [][NextClassify]_vars

\* ------------------------------------- patternBasedCategorization on its own

MaxHeuristicTabs == 2

HeuristicTabLists ==
  {ts \in UNION {[1..n -> {HeuristicPool[i] : i \in 1..Len(HeuristicPool)}] : n \in 1..MaxHeuristicTabs} :
     \A i, j \in 1..Len(ts) : i # j => ts[i] # ts[j]}

InitHeuristic ==
  /\ tabs \in HeuristicTabLists
  /\ maxGroups \in MaxGroupsChoices
  /\ mode = "pattern" /\ engine = FALSE
  /\ pc = "idle"
  /\ retryCount = 0
  /\ requests = 0
  /\ response = NoResponse
  /\ result = <<>>
  /\ via = "none"
  /\ LimitIdle /\ EmptyHost /\ ReconcileIdle /\ OthersIdle

NextHeuristic == CategorizeTabsPattern

SpecHeuristic == InitHeuristic /\ [][NextHeuristic]_vars

\* ------------------------------------------------------------- limitGroups

MaxLimitGroups == 3

LimitNames == { <<"D","e","v">>, <<"N","e","w","s">>, Other }

LimitTabIds == { <<>>, <<1>>, <<2, 3>> }

\* Dev with two tabs and three groups of one tab
LimitExample ==
  << [name |-> <<"D","e","v">>, color |-> "blue", tabIds |-> <<1, 5>>],
     [name |-> <<"E","n","t","e","r","t","a","i","n","m","e","n","t">>, color |-> "blue",
      tabIds |-> <<2>>],
     [name |-> <<"W","o","r","k">>, color |-> "blue", tabIds |-> <<3>>],
     [name |-> Other, color |-> "blue", tabIds |-> <<4>>] >>

LimitInputs ==
  UNION {[1..n -> [name : LimitNames, color : {"blue"}, tabIds : LimitTabIds]] :
         n \in 0..MaxLimitGroups}
    \cup {LimitExample}

InitLimit ==
  /\ limitInput \in LimitInputs
  /\ limitMax \in 1..(MaxLimitGroups + 1)
  /\ limitOutput = <<>>
  /\ limitPc = "idle"
  /\ ClassifyIdle /\ EmptyHost /\ ReconcileIdle /\ OthersIdle

LimitGroups ==
  /\ limitPc = "idle"
  /\ limitOutput' = limitGroups(limitInput, limitMax)
  /\ limitPc' = "returned"
  /\ UNCHANGED <<limitInput, limitMax, classifyVars, hostVars, reconcileVars, cleanupVars,
                 sanitizeVars, assignVars, serviceVars>>

\* the groups limited by fallbackCategorization of the offscreen document
OffscreenLimit ==
  /\ limitPc = "idle"
  /\ limitOutput' = offscreenLimit(limitInput, limitMax)
  /\ limitPc' = "offscreenReturned"
  /\ UNCHANGED <<limitInput, limitMax, classifyVars, hostVars, reconcileVars, cleanupVars,
                 sanitizeVars, assignVars, serviceVars>>

NextLimit == LimitGroups \/ OffscreenLimit

SpecLimit == InitLimit /\ [][NextLimit]_vars

\* ------------------------------------------------------------ createGroups

MaxRuns == 2

HostTabs == {10, 11, 12, 13, 20, 21}

WindowIds == {1, 2}

FirstGroupId == 50

TitleChoices == { <<"d","e","v">>, <<"D","e","v">>, <<"t","a","b","d","e","v">>, <<"N","e","w","s">> }

NameChoices == { <<"D","e","v">>, <<"d","e","v"," ">>, <<"t","a","b","-","d","e","v">>, <<"t","a","b","d","e","v">> }

\* which tabs are grouped when the run starts: none, tab 13 in group 42,
\* and also tab 12 in group 41
InitialGroupings ==
  { [t \in HostTabs |-> NoGroupId],
    [t \in HostTabs |-> IF t = 13 THEN 42 ELSE NoGroupId],
    [t \in HostTabs |-> IF t = 13 THEN 42 ELSE IF t = 12 THEN 41 ELSE NoGroupId] }

groupIdsOf(tg) == {tg[t] : t \in DOMAIN tg} \ {NoGroupId}

\* the tab ids of the assignments: pairwise disjoint, some of another window
\* (20) or of no supplied tab (99)
AssignmentShapes ==
  { << <<10, 11>> >>, << <<12>> >>, << <<10, 20, 99>> >>,
    << <<10>>, <<11>> >>, << <<12>>, <<10, 11>> >>, << <<10, 20>>, <<99>> >>,
    << <<>>, <<11>> >> }

CategoryLists ==
  UNION {{[i \in 1..Len(shape) |-> [name |-> names[i], color |-> "blue", tabIds |-> shape[i]]] :
            names \in [1..Len(shape) -> NameChoices]} : shape \in AssignmentShapes}

SuppliedTabLists == { <<10, 11, 12, 13>>, <<10, 11, 12, 20>> }

InitReconcile ==
  /\ currentWindow \in WindowIds
  /\ tabGroup \in InitialGroupings
  /\ hostGroups \in [groupIdsOf(tabGroup) -> [title : TitleChoices, color : {"grey"}, windowId : {1}]]
  /\ nextGroupId = FirstGroupId
  /\ categories \in CategoryLists
  /\ suppliedTabs \in SuppliedTabLists
  /\ cgPc = "idle" /\ run = 0 /\ runStartGroupId = 0 /\ targetWindowId = 0
  /\ existingGroups = <<>> /\ existingGroupsByName = EmptyMap
  /\ processedCategories = {} /\ idx = 0 /\ groups = <<>> /\ log = <<>>
  /\ ClassifyIdle /\ LimitIdle /\ OthersIdle

\* the browser as a value; totalMerged counts the tabs a cleanup moves
hostState ==
  [tabGroup |-> tabGroup, hostGroups |-> hostGroups, nextGroupId |-> nextGroupId,
   totalMerged |-> 0]

\* createGroups up to the loop: the window lookup, mergeDuplicateGroups, the
\* query of the existing groups and the map built from it. A later call runs
\* with the same arguments against the groups the earlier one left.
CreateGroupsStart ==
  /\ cgPc \in {"idle", "returned"}
  /\ run < MaxRuns
  /\ Len(suppliedTabs) > 0
  /\ LET target == windowIdOf(suppliedTabs[1])
         cleaned == mergeDuplicateGroups(hostState, windowToClean(currentWindow, target))
         existing == queryGroups(cleaned.hostGroups, target)
     IN /\ targetWindowId' = target
        /\ tabGroup' = cleaned.tabGroup
        /\ hostGroups' = cleaned.hostGroups
        /\ existingGroups' = existing
        /\ existingGroupsByName' = buildExistingGroupsByName(existing, EmptyMap)
  /\ run' = run + 1
  /\ runStartGroupId' = nextGroupId
  /\ processedCategories' = {}
  /\ idx' = 1
  /\ groups' = <<>>
  /\ log' = <<>>
  /\ cgPc' = "loop"
  /\ UNCHANGED <<currentWindow, nextGroupId, categories, suppliedTabs, classifyVars, limitVars,
                 cleanupVars, sanitizeVars, assignVars, serviceVars>>

\* one pass of the loop over categories.groups
ProcessCategory ==
  /\ cgPc = "loop"
  /\ idx <= Len(categories)
  /\ LET out == processCategory([host |-> hostState, byName |-> existingGroupsByName,
                                 processed |-> processedCategories, groups |-> groups],
                                categories[idx], suppliedTabs, targetWindowId)
     IN /\ tabGroup' = out.host.tabGroup
        /\ hostGroups' = out.host.hostGroups
        /\ nextGroupId' = out.host.nextGroupId
        /\ existingGroupsByName' = out.byName
        /\ processedCategories' = out.processed
        /\ groups' = out.groups
        /\ log' = Append(log, [action |-> out.action, groupId |-> out.groupId])
  /\ idx' = idx + 1
  /\ UNCHANGED <<currentWindow, categories, suppliedTabs, cgPc, run, runStartGroupId,
                 targetWindowId, existingGroups, classifyVars, limitVars,
                 cleanupVars, sanitizeVars, assignVars, serviceVars>>

\* return groups
CreateGroupsReturn ==
  /\ cgPc = "loop"
  /\ idx > Len(categories)
  /\ cgPc' = "returned"
  /\ UNCHANGED <<hostVars, categories, suppliedTabs, run, runStartGroupId, targetWindowId,
                 existingGroups, existingGroupsByName, processedCategories, idx, groups, log,
                 classifyVars, limitVars,
                 cleanupVars, sanitizeVars, assignVars, serviceVars>>

NextReconcile ==
  \/ CreateGroupsStart
  \/ ProcessCategory
  \/ CreateGroupsReturn

SpecReconcile == InitReconcile /\ [][NextReconcile]_vars

\* ------------------------------------------- createGroups on a failing host

HostTitleChoices == { <<"d","e","v">>, <<"N","e","w","s">> }

\* groups of the target window of the supplied tabs (41, 42) and two groups
\* of the other window (43, 44) that differ in the case of their titles
HostGroupings ==
  { [t \in HostTabs |-> NoGroupId],
    [t \in HostTabs |-> IF t = 13 THEN 42 ELSE IF t = 12 THEN 41 ELSE NoGroupId],
    [t \in HostTabs |-> IF t = 20 THEN 43 ELSE IF t = 21 THEN 44 ELSE NoGroupId],
    [t \in HostTabs |-> IF t = 13 THEN 42 ELSE IF t = 12 THEN 41
                        ELSE IF t = 20 THEN 43 ELSE IF t = 21 THEN 44 ELSE NoGroupId] }

\* a group is in the window of its tabs
windowOfGroup(tg, g) == windowIdOf(CHOOSE t \in DOMAIN tg : tg[t] = g)

HostGroupsFor(tg) ==
  {hg \in [groupIdsOf(tg) -> [title : HostTitleChoices \cup { <<"D","e","v">> },
                                color : {"grey"}, windowId : WindowIds]] :
     \A g \in groupIdsOf(tg) :
       /\ hg[g].windowId = windowOfGroup(tg, g)
       /\ g \in {41, 42} => hg[g].title \in HostTitleChoices
       /\ g = 43 => hg[g].title = <<"d","e","v">>
       /\ g = 44 => hg[g].title = <<"D","e","v">>}

HostCategoryLists ==
  UNION {{[i \in 1..Len(shape) |-> [name |-> names[i], color |-> "blue", tabIds |-> shape[i]]] :
            names \in [1..Len(shape) -> { <<"D","e","v">>, <<"N","e","w","s">> }]} :
         shape \in { << <<10, 11>> >>, << <<12>>, <<10, 11>> >>, << <<10, 20, 99>>, <<11>> >> }}

InitReconcileHost ==
  /\ currentWindow \in WindowIds
  /\ tabGroup \in HostGroupings
  /\ hostGroups \in HostGroupsFor(tabGroup)
  /\ nextGroupId = FirstGroupId
  /\ categories \in HostCategoryLists
  /\ suppliedTabs \in SuppliedTabLists
  /\ cgPc = "idle" /\ run = 0 /\ runStartGroupId = 0 /\ targetWindowId = 0
  /\ existingGroups = <<>> /\ existingGroupsByName = EmptyMap
  /\ processedCategories = {} /\ idx = 0 /\ groups = <<>> /\ log = <<>>
  /\ ClassifyIdle /\ LimitIdle /\ OthersIdle

\* the calls createGroups awaits outside every try block
StartFaults == {"windows.get", "tabGroups.query"}

\* createGroups rejects before its loop: chrome.windows.get fails before
\* anything is done, chrome.tabGroups.query after mergeDuplicateGroups has run
CreateGroupsThrows ==
  /\ cgPc \in {"idle", "returned"}
  /\ run < MaxRuns
  /\ Len(suppliedTabs) > 0
  /\ \E fault \in StartFaults :
       \E cleaned \in {IF fault = "windows.get" THEN hostState
                       ELSE mergeDuplicateGroups(hostState,
                              windowToClean(currentWindow, windowIdOf(suppliedTabs[1])))} :
         /\ tabGroup' = cleaned.tabGroup
         /\ hostGroups' = cleaned.hostGroups
  /\ targetWindowId' = windowIdOf(suppliedTabs[1])
  /\ run' = run + 1
  /\ runStartGroupId' = nextGroupId
  /\ existingGroups' = <<>>
  /\ existingGroupsByName' = EmptyMap
  /\ processedCategories' = {}
  /\ idx' = 0
  /\ groups' = <<>>
  /\ log' = <<>>
  /\ cgPc' = "threw"
  /\ UNCHANGED <<currentWindow, nextGroupId, categories, suppliedTabs, classifyVars, limitVars,
                 cleanupVars, sanitizeVars, assignVars, serviceVars>>

\* what the host rejects within one pass: one call, or the use of the matched
\* group and then the creation or the update of its replacement
FaultSets ==
  {{f} : f \in HostFaults} \cup {{"get", "create"}, {"add", "create"}, {"get", "update"}}

\* the error of a pass raised out of the loop
categoryCatchRethrowing(action) == IF action = "failed" THEN "threw" ELSE "loop"

\* the catch block of a pass logs the error, and the loop goes on
categoryCatch(action) == "loop"

\* one pass of the loop in which the host rejects a call the pass makes
ProcessCategoryFailing ==
  /\ cgPc = "loop"
  /\ idx <= Len(categories)
  /\ \E fault \in FaultSets :
       \E out \in {processCategoryUnder(fault,
                     [host |-> hostState, byName |-> existingGroupsByName,
                      processed |-> processedCategories, groups |-> groups],
                     categories[idx], suppliedTabs, targetWindowId)} :
         /\ out.action = "failed"
              \/ (out.action = "created new (existing unavailable)"
                    /\ lookupExistingGroup(existingGroupsByName, categories[idx].name).id
                         \in DOMAIN hostGroups)
         /\ tabGroup' = out.host.tabGroup
         /\ hostGroups' = out.host.hostGroups
         /\ nextGroupId' = out.host.nextGroupId
         /\ existingGroupsByName' = out.byName
         /\ processedCategories' = out.processed
         /\ groups' = out.groups
         /\ log' = Append(log, [action |-> out.action, groupId |-> out.groupId])
         /\ cgPc' = categoryCatch(out.action)
  /\ idx' = idx + 1
  /\ UNCHANGED <<currentWindow, categories, suppliedTabs, run, runStartGroupId,
                 targetWindowId, existingGroups, classifyVars, limitVars,
                 cleanupVars, sanitizeVars, assignVars, serviceVars>>

\* organizeTabs awaits createGroups inside a try whose catch rethrows
organizeTabsOutcome(createGroupsOutcome) ==
  IF createGroupsOutcome = "threw" THEN "threw" ELSE "organized"

NextReconcileHost ==
  \/ CreateGroupsStart
  \/ CreateGroupsThrows
  \/ ProcessCategory
  \/ ProcessCategoryFailing
  \/ CreateGroupsReturn

SpecReconcileHost == InitReconcileHost /\ [][NextReconcileHost]_vars

\* ------------------------------------- createGroups on spellings of one name

Spellings == { <<"T","a","b"," ","D","e","v">>, <<"t","a","b","d","e","v">>, <<"t","a","b","-","d","e","v">> }

\* the first category carries a spelling; a second one, when there is one, is
\* named News
SpellingCategoryLists ==
  {[i \in 1..Len(shape) |->
      [name |-> IF i = 1 THEN name ELSE <<"N","e","w","s">>, color |-> "blue", tabIds |-> shape[i]]] :
     name \in Spellings, shape \in { << <<10, 11>> >>, << <<10>>, <<11>> >>, << <<10, 20, 99>> >> }}

\* window 1 holds one group, 42 with tab 13, titled with a spelling
InitSpellings ==
  /\ currentWindow \in WindowIds
  /\ tabGroup = [t \in HostTabs |-> IF t = 13 THEN 42 ELSE NoGroupId]
  /\ hostGroups \in [{42} -> [title : Spellings, color : {"grey"}, windowId : {1}]]
  /\ nextGroupId = FirstGroupId
  /\ categories \in SpellingCategoryLists
  /\ suppliedTabs \in SuppliedTabLists
  /\ cgPc = "idle" /\ run = 0 /\ runStartGroupId = 0 /\ targetWindowId = 0
  /\ existingGroups = <<>> /\ existingGroupsByName = EmptyMap
  /\ processedCategories = {} /\ idx = 0 /\ groups = <<>> /\ log = <<>>
  /\ ClassifyIdle /\ LimitIdle /\ OthersIdle

SpecSpellings == InitSpellings /\ [][NextReconcile]_vars

\* --------------------------------- createGroups on a catch-all group's titles

\* general, misc, miscellaneous and the empty title
AliasTitles == { <<"g","e","n","e","r","a","l">>, <<"m","i","s","c">>, <<"m","i","s","c","e","l","l","a","n","e","o","u","s">>, <<>> }

\* the first category is named Other; a second one, when there is one, News
AliasCategoryLists ==
  {[i \in 1..Len(shape) |->
      [name |-> IF i = 1 THEN Other ELSE <<"N","e","w","s">>, color |-> "grey", tabIds |-> shape[i]]] :
     shape \in { << <<10, 11>> >>, << <<10>>, <<11>> >>, << <<10, 20, 99>> >>, << <<12>>, <<10, 11>> >> }}

\* window 1 holds one group, 42 with tab 13, titled with an alias of other
InitAliases ==
  /\ currentWindow \in WindowIds
  /\ tabGroup = [t \in HostTabs |-> IF t = 13 THEN 42 ELSE NoGroupId]
  /\ hostGroups \in [{42} -> [title : AliasTitles, color : {"grey"}, windowId : {1}]]
  /\ nextGroupId = FirstGroupId
  /\ categories \in AliasCategoryLists
  /\ suppliedTabs \in SuppliedTabLists
  /\ cgPc = "idle" /\ run = 0 /\ runStartGroupId = 0 /\ targetWindowId = 0
  /\ existingGroups = <<>> /\ existingGroupsByName = EmptyMap
  /\ processedCategories = {} /\ idx = 0 /\ groups = <<>> /\ log = <<>>
  /\ ClassifyIdle /\ LimitIdle /\ OthersIdle

SpecAliases == InitAliases /\ [][NextReconcile]_vars

\* ------------------------------------------ mergeDuplicateGroups on its own

MaxMergeCalls == 2

CleanupTitleChoices ==
  { <<"d","e","v">>, <<"D","e","v">>, <<"G","e","n","e","r","a","l">>, <<"m","i","s","c">>, <<>> }

\* tabs 10 to 13 of window 1 in up to three groups of different sizes, tabs
\* 20 and 21 of window 2 in one group or two
CleanupGroupings ==
  {[t \in HostTabs |-> IF t = 10 THEN 41 ELSE IF t = 11 THEN g11 ELSE IF t = 12 THEN g12
                       ELSE IF t = 13 THEN g13 ELSE IF t = 20 THEN 44 ELSE g21] :
     g11 \in {41, 42}, g12 \in {42, 43}, g13 \in {43, NoGroupId}, g21 \in {44, 45}}

CleanupGroupsFor(tg) ==
  {hg \in [groupIdsOf(tg) -> [title : CleanupTitleChoices, color : {"grey"}, windowId : WindowIds]] :
     \A g \in groupIdsOf(tg) :
       /\ hg[g].windowId = windowOfGroup(tg, g)
       /\ g = 44 => hg[g].title = <<"d","e","v">>
       /\ g = 45 => hg[g].title = <<"D","e","v">>}

InitCleanup ==
  /\ currentWindow \in WindowIds
  /\ tabGroup \in CleanupGroupings
  /\ hostGroups \in CleanupGroupsFor(tabGroup)
  /\ nextGroupId = FirstGroupId
  /\ CleanupIdle
  /\ ClassifyIdle /\ LimitIdle /\ ReconcileIdle /\ SanitizeIdle /\ AssignIdle /\ ServiceIdle

\* one call of mergeDuplicateGroups() that meets no host error
MergeDuplicateGroups ==
  /\ mergeCalls < MaxMergeCalls
  /\ \E cleaned \in {mergeDuplicateGroups(hostState, currentWindow)} :
       /\ tabGroup' = cleaned.tabGroup
       /\ hostGroups' = cleaned.hostGroups
       /\ mergeReturned' = cleaned.totalMerged
  /\ mergeCalls' = mergeCalls + 1
  /\ UNCHANGED <<currentWindow, nextGroupId, cleanupCalls, cleanupReturned, classifyVars,
                 limitVars, reconcileVars, sanitizeVars, assignVars, serviceVars>>

NextCleanup == MergeDuplicateGroups

SpecCleanup == InitCleanup /\ [][NextCleanup]_vars

\* ------------------------------------------ cleanupAllDuplicates on its own

MaxCleanupCalls == 2

ConsolidationTitleChoices ==
  { <<"d","e","v">>, <<"D","e","v">>, <<"G","e","n","e","r","a","l">>, <<"m","i","s","c">>, <<"O","t","h","e","r">>, <<>> }

ConsolidationGroupsFor(tg) ==
  {hg \in [groupIdsOf(tg) -> [title : ConsolidationTitleChoices, color : {"grey"},
                              windowId : WindowIds]] :
     \A g \in groupIdsOf(tg) :
       /\ hg[g].windowId = windowOfGroup(tg, g)
       /\ g = 44 => hg[g].title = <<"d","e","v">>
       /\ g = 45 => hg[g].title = <<"D","e","v">>}

InitConsolidate ==
  /\ currentWindow \in WindowIds
  /\ tabGroup \in CleanupGroupings
  /\ hostGroups \in ConsolidationGroupsFor(tabGroup)
  /\ nextGroupId = FirstGroupId
  /\ CleanupIdle
  /\ ClassifyIdle /\ LimitIdle /\ ReconcileIdle /\ SanitizeIdle /\ AssignIdle /\ ServiceIdle

\* one call of cleanupAllDuplicates() that meets no host error
CleanupAllDuplicates ==
  /\ cleanupCalls < MaxCleanupCalls
  /\ \E done \in {cleanupAllDuplicates(hostState, currentWindow)} :
       /\ tabGroup' = done.host.tabGroup
       /\ hostGroups' = done.host.hostGroups
       /\ nextGroupId' = done.host.nextGroupId
       /\ cleanupReturned' = [processed |-> done.processed, consolidated |-> done.consolidated]
  /\ cleanupCalls' = cleanupCalls + 1
  /\ UNCHANGED <<currentWindow, mergeCalls, mergeReturned, classifyVars, limitVars,
                 reconcileVars, sanitizeVars, assignVars, serviceVars>>

NextConsolidate == CleanupAllDuplicates

SpecConsolidate == InitConsolidate /\ [][NextConsolidate]_vars

\* ------------------------------- cleanupAllDuplicates on a host that rejects

RejectedCalls == {"ungroup", "group", "update"}

\* one call of cleanupAllDuplicates() in which the host rejects a call made
\* for one of the names that are consolidated
CleanupAllDuplicatesRejecting ==
  /\ cleanupCalls < MaxCleanupCalls
  /\ \E i \in 1..Len(queryGroups(hostGroups, currentWindow)), rejected \in RejectedCalls :
       \E done \in {cleanupAllDuplicatesRejecting(
                      hostState, currentWindow,
                      cleanupName(queryGroups(hostGroups, currentWindow)[i].title), rejected)} :
         /\ tabGroup' = done.host.tabGroup
         /\ hostGroups' = done.host.hostGroups
         /\ nextGroupId' = done.host.nextGroupId
         /\ cleanupReturned' = [processed |-> done.processed, consolidated |-> done.consolidated]
  /\ cleanupCalls' = cleanupCalls + 1
  /\ UNCHANGED <<currentWindow, mergeCalls, mergeReturned, classifyVars, limitVars,
                 reconcileVars, sanitizeVars, assignVars, serviceVars>>

NextConsolidateRejecting ==
  \/ CleanupAllDuplicates
  \/ CleanupAllDuplicatesRejecting

SpecConsolidateRejecting == InitConsolidate /\ [][NextConsolidateRejecting]_vars

\* ---------------------------------------------- two overlapping organizeTabs

MaxOtherRuns == 1

\* the tab that finished loading after the first run had read the tabs
LateTab == 13

\* what the first run is given: tabs 10 to 12 of window 1 in categories
OverlapCategoryLists ==
  { << [name |-> <<"D","e","v">>, color |-> "blue", tabIds |-> <<10, 11>>] >>,
    << [name |-> <<"N","e","w","s">>, color |-> "red", tabIds |-> <<12>>],
       [name |-> <<"D","e","v">>, color |-> "blue", tabIds |-> <<10, 11>>] >>,
    << [name |-> <<"D","e","v">>, color |-> "blue", tabIds |-> <<10>>],
       [name |-> <<"N","e","w","s">>, color |-> "red", tabIds |-> <<11, 12>>] >> }

\* the loop of createGroups from one category to the last
RECURSIVE processCategories(_, _, _, _, _)
processCategories(st, cats, i, supplied, target) ==
  IF i > Len(cats) THEN st
  ELSE LET out == processCategory(st, cats[i], supplied, target)
       IN processCategories([host |-> out.host, byName |-> out.byName,
                             processed |-> out.processed, groups |-> out.groups],
                            cats, i + 1, supplied, target)

\* a whole createGroups call with no other call between its host calls
createGroupsAtOnce(host, cats, supplied, currentId) ==
  LET target == windowIdOf(supplied[1])
      cleaned == mergeDuplicateGroups(host, windowToClean(currentId, target))
      existing == queryGroups(cleaned.hostGroups, target)
  IN processCategories([host |-> cleaned,
                        byName |-> buildExistingGroupsByName(existing, EmptyMap),
                        processed |-> {}, groups |-> <<>>],
                       cats, 1, supplied, target).host

\* what the second run is given: the same, and the late tab in one of the
\* categories or in none (a page that is not organized)
otherRunCategories(cats) ==
  {cats} \cup {[cats EXCEPT ![k].tabIds = Append(@, LateTab)] : k \in 1..Len(cats)}

\* window 1 is the current window; its groups, if any, carry distinct names
InitOverlap ==
  /\ currentWindow = 1
  /\ tabGroup \in InitialGroupings
  /\ hostGroups \in {hg \in [groupIdsOf(tabGroup) ->
                               [title : { <<"d","e","v">>, <<"N","e","w","s">> },
                                color : {"grey"}, windowId : {1}]] :
                       \A g, h \in DOMAIN hg : g # h => hg[g].title # hg[h].title}
  /\ nextGroupId = FirstGroupId
  /\ categories \in OverlapCategoryLists
  /\ suppliedTabs = <<10, 11, 12>>
  /\ cgPc = "idle" /\ run = 0 /\ runStartGroupId = 0 /\ targetWindowId = 0
  /\ existingGroups = <<>> /\ existingGroupsByName = EmptyMap
  /\ processedCategories = {} /\ idx = 0 /\ groups = <<>> /\ log = <<>>
  /\ ClassifyIdle /\ LimitIdle /\ OthersIdle

\* the createGroups call of a second organizeTabs run, started by another
\* event, whose host calls all fall between two host calls of the first
OtherRunCreateGroups ==
  /\ otherRuns < MaxOtherRuns
  /\ \E cats \in otherRunCategories(categories) :
     \E done \in {createGroupsAtOnce(hostState, cats, Append(suppliedTabs, LateTab),
                                      currentWindow)} :
       /\ tabGroup' = done.tabGroup
       /\ hostGroups' = done.hostGroups
       /\ nextGroupId' = done.nextGroupId
  /\ otherRuns' = otherRuns + 1
  /\ UNCHANGED <<eventTab, eventPc, eventGroups>>
  /\ UNCHANGED <<currentWindow, classifyVars, limitVars, reconcileVars, cleanupVars,
                 sanitizeVars, assignVars, initializeVars, storageVars, settingsVars>>

NextOverlap ==
  \/ CreateGroupsStart
  \/ ProcessCategory
  \/ CreateGroupsReturn
  \/ OtherRunCreateGroups

SpecOverlap == InitOverlap /\ [][NextOverlap]_vars

\* ------------------------------------------------ sanitizeName on its own

SanitizeWords ==
  { <<"D","e","v","T","o","o","l","s">>, <<"d","e","v">>, <<"D","E","V">>, <<"D","e","v">>, <<"x","k","c","d","q","z">>, <<"m","i","s","c">>, <<"M","i","s","c","e","l","l","a","n","e","o","u","s">>,
    <<"G","e","n","e","r","a","l">>, <<"g","e","n","e","r","a","l","l","y">>, <<"c","a","t","e","g","o","r","i","z","e"," ","t","h","i","s">>, <<"U","n","c","a","t","e","g","o","r","i","z","e","d">>, <<"u","n","k","n","o","w","n">>,
    <<"M","y"," ","S","t","u","f","f">>, <<"a">>, <<"7">>, <<"4","2">>, <<"w","o","r","k">>, <<"s","t","r","e","n","g","t","h","s">>, <<"r","h","y","t","h","m">>,
    <<"a"," ","v","e","r","y"," ","l","o","n","g"," ","c","a","t","e","g","o","r","y"," ","n","a","m","e">>, <<"n","e","w","s">>, <<"A","I">>, <<"i","o">>, <<>> }

Paddings == { <<>>, <<" ">>, <<" ", " ">> }

\* what a model may answer: a word with whitespace around it
SanitizeInputs == {before \o word \o after : before \in Paddings, word \in SanitizeWords, after \in Paddings}

InitSanitize ==
  /\ sanitizeInput \in SanitizeInputs
  /\ sanitizeOutput = <<>>
  /\ sanitizePc = "idle"
  /\ ClassifyIdle /\ LimitIdle /\ EmptyHost /\ ReconcileIdle /\ CleanupIdle /\ AssignIdle
  /\ ServiceIdle

SanitizeName ==
  /\ sanitizePc = "idle"
  /\ sanitizeOutput' = sanitizeName(sanitizeInput)
  /\ sanitizePc' = "returned"
  /\ UNCHANGED <<sanitizeInput, classifyVars, limitVars, hostVars, reconcileVars,
                 cleanupVars, assignVars, serviceVars>>

NextSanitize == SanitizeName

SpecSanitize == InitSanitize /\ [][NextSanitize]_vars

\* ------------------------------------------------ assignTabToGroup (auto mode)

AssignTitleChoices == { <<"D","e","v">>, <<"d","e","v"," ">>, <<"O","t","h","e","r">>, <<"W","o","r","k">>, <<>> }

\* the groups of window 1 when the tab loads: none, tab 13 in group 42, and
\* also tab 12 in group 41; window 2 has no group
AssignGroupsFor(tg) ==
  [groupIdsOf(tg) -> [title : AssignTitleChoices, color : {"grey"}, windowId : {1}]]

\* a tab that has loaded: one of the pool's pages, in window 1 or 2
NewTabs ==
  {[id |-> id, domain |-> TabPool[p].domain, title |-> TabPool[p].title] :
     id \in {10, 20}, p \in {1, 3, 4}}

EngineAnswer(threw, content) == [threw |-> threw, content |-> content]

\* what the engine answers when asked for the best group
FindAnswers ==
  {EngineAnswer(TRUE, <<>>)}
    \cup {EngineAnswer(FALSE, c) : c \in { <<"n","o","n","e">>, <<" ","D","e","v"," ">>, <<"o","t","h","e","r">>, <<"B","l","a","h">> }}

\* what the engine answers when asked for a category name
CategoryAnswers ==
  {EngineAnswer(TRUE, <<>>)}
    \cup {EngineAnswer(FALSE, c) : c \in { <<"D","e","v">>, <<" ","o","t","h","e","r"," ">>, <<"D","e","v","T","o","o","l","s">>, <<"x","k","c","d","q","z">> }}

InitAssign ==
  /\ currentWindow \in WindowIds
  /\ tabGroup \in InitialGroupings
  /\ hostGroups \in AssignGroupsFor(tabGroup)
  /\ nextGroupId = FirstGroupId
  /\ newTab \in NewTabs
  /\ assignPc = "idle"
  /\ tabs = <<>> /\ maxGroups \in MaxGroupsChoices
  /\ \E m \in {"gpu", "pattern"} : mode = m /\ engine = (m = "gpu")
  /\ pc = "idle" /\ retryCount = 0 /\ requests = 0 /\ response = NoResponse
  /\ result = <<>> /\ via = "none"
  /\ LimitIdle /\ ReconcileIdle /\ CleanupIdle /\ SanitizeIdle /\ ServiceIdle

\* assignTabToGroup(tab) hands over to organizeTabs when the tab's window has
\* no group
AssignOrganizes ==
  /\ assignPc = "idle"
  /\ Len(queryGroups(hostGroups, windowIdOf(newTab.id))) = 0
  /\ assignPc' = "organizeTabs"
  /\ UNCHANGED <<newTab, classifyVars, limitVars, hostVars, reconcileVars, cleanupVars,
                 sanitizeVars, serviceVars>>

\* assignTabToGroup(tab) in a window that has groups
AssignTabToGroup ==
  /\ assignPc = "idle"
  /\ Len(queryGroups(hostGroups, windowIdOf(newTab.id))) > 0
  /\ \E found \in FindAnswers, named \in CategoryAnswers :
       \E out \in {assignAmong(hostState, mode = "gpu" /\ engine, newTab,
                     existingCategoriesOf(queryGroups(hostGroups, windowIdOf(newTab.id))),
                     maxGroups, found, named)} :
         /\ tabGroup' = out.host.tabGroup
         /\ hostGroups' = out.host.hostGroups
         /\ nextGroupId' = out.host.nextGroupId
         /\ assignPc' = out.done
  /\ UNCHANGED <<currentWindow, newTab, classifyVars, limitVars, reconcileVars, cleanupVars,
                 sanitizeVars, serviceVars>>

NextAssign ==
  \/ AssignOrganizes
  \/ AssignTabToGroup

SpecAssign == InitAssign /\ [][NextAssign]_vars

\* ------------------------------------- assignTabToGroup for concurrent events

\* two tabs that finished loading, ungrouped: tab 10, and tab 11 of the same
\* window or tab 20 of window 2
EventTabs ==
  {[e \in TabEvents |->
      [id |-> IF e = 1 THEN 10 ELSE second,
       domain |-> TabPool[pages[e]].domain, title |-> TabPool[pages[e]].title]] :
     second \in {11, 20}, pages \in [TabEvents -> {1, 4}]}

InitAssignEvents ==
  /\ currentWindow \in WindowIds
  /\ tabGroup \in InitialGroupings
  /\ hostGroups \in [groupIdsOf(tabGroup) ->
                       [title : { <<"O","t","h","e","r">>, <<"W","o","r","k">> },
                        color : {"grey"}, windowId : {1}]]
  /\ nextGroupId = FirstGroupId
  /\ eventTab \in EventTabs
  /\ eventPc = [e \in TabEvents |-> "idle"]
  /\ eventGroups = [e \in TabEvents |-> <<>>]
  /\ otherRuns = 0
  /\ tabs = <<>> /\ maxGroups \in MaxGroupsChoices
  /\ \E m \in {"gpu", "pattern"} : mode = m /\ engine = (m = "gpu")
  /\ pc = "idle" /\ retryCount = 0 /\ requests = 0 /\ response = NoResponse
  /\ result = <<>> /\ via = "none"
  /\ LimitIdle /\ ReconcileIdle /\ CleanupIdle /\ SanitizeIdle /\ AssignIdle
  /\ InitializeIdle /\ StorageIdle /\ SettingsIdle

\* assignTabToGroup(tab) to the answer of chrome.tabGroups.query: with no
\* group in the window the call hands over to organizeTabs
AssignQueries(e) ==
  /\ eventPc[e] = "idle"
  /\ LET found == queryGroups(hostGroups, windowIdOf(eventTab[e].id))
     IN /\ eventGroups' = [eventGroups EXCEPT ![e] = found]
        /\ eventPc' = [eventPc EXCEPT ![e] = IF Len(found) = 0 THEN "organizeTabs" ELSE "queried"]
  /\ UNCHANGED <<otherRuns, eventTab>>
  /\ UNCHANGED <<classifyVars, groupingVars, initializeVars, storageVars, settingsVars>>

\* the rest of assignTabToGroup(tab), decided on the groups it was answered
AssignActs(e) ==
  /\ eventPc[e] = "queried"
  /\ \E found \in FindAnswers, named \in CategoryAnswers :
       \E out \in {assignAmong(hostState, mode = "gpu" /\ engine, eventTab[e],
                               existingCategoriesOf(eventGroups[e]), maxGroups, found, named)} :
         /\ tabGroup' = out.host.tabGroup
         /\ hostGroups' = out.host.hostGroups
         /\ nextGroupId' = out.host.nextGroupId
         /\ eventPc' = [eventPc EXCEPT ![e] = out.done]
  /\ UNCHANGED <<otherRuns, eventTab, eventGroups>>
  /\ UNCHANGED <<currentWindow, classifyVars, limitVars, reconcileVars, cleanupVars,
                 sanitizeVars, assignVars, initializeVars, storageVars, settingsVars>>

NextAssignEvents ==
  \/ \E e \in TabEvents : AssignQueries(e)
  \/ \E e \in TabEvents : AssignActs(e)

SpecAssignEvents == InitAssignEvents /\ [][NextAssignEvents]_vars

\* ------------------------------------------------- LocalLLM.initialize

MaxInitializeCalls == 4

\* if (this.loading || this.ready) return, with ready alone as the guard
initializeGuardReadyOnly(isLoading, isReady) == isReady

\* if (this.loading || this.ready) return
initializeGuard(isLoading, isReady) == isLoading \/ isReady

\* getStatus with loadError looked at before ready
getStatusErrorFirst(isLoading, isReady, theMode, theLoadError) ==
  IF isLoading THEN [status |-> "loading", message |-> "Loading AI model..."]
  ELSE IF theLoadError # "null" THEN [status |-> "error", message |-> theLoadError]
  ELSE IF isReady
  THEN [status |-> "ready",
        message |-> IF theMode = "gpu" THEN "WebGPU acceleration active"
                    ELSE IF theMode = "pattern" THEN "Smart pattern matching active"
                    ELSE "Ready"]
  ELSE [status |-> "idle", message |-> "Not initialized"]

getStatus(isLoading, isReady, theMode, theLoadError) ==
  IF isLoading THEN [status |-> "loading", message |-> "Loading AI model..."]
  ELSE IF isReady
  THEN [status |-> "ready",
        message |-> IF theMode = "gpu" THEN "WebGPU acceleration active"
                    ELSE IF theMode = "pattern" THEN "Smart pattern matching active"
                    ELSE "Ready"]
  ELSE IF theLoadError # "null" THEN [status |-> "error", message |-> theLoadError]
  ELSE [status |-> "idle", message |-> "Not initialized"]

\* the object as the constructor leaves it, in a browser with or without WebGPU
InitInitialize ==
  /\ ready = FALSE /\ loading = FALSE /\ loadError = "null"
  /\ mode = "null" /\ engine = FALSE
  /\ navigatorGpu \in BOOLEAN
  /\ initializeCalls = 0 /\ loads = 0 /\ loadsPending = 0
  /\ resolvedCalls = 0 /\ resolved = "none" /\ status = NoStatus
  /\ tabs = <<>> /\ maxGroups = 5
  /\ pc = "idle" /\ retryCount = 0 /\ requests = 0 /\ response = NoResponse
  /\ result = <<>> /\ via = "none"
  /\ LimitIdle /\ EmptyHost /\ ReconcileIdle /\ CleanupIdle /\ SanitizeIdle /\ AssignIdle
  /\ StorageIdle /\ SettingsIdle /\ OverlapIdle

\* initialize() from its first line to its first await, or to its end when it
\* never awaits
Initialize ==
  /\ initializeCalls < MaxInitializeCalls
  /\ initializeCalls' = initializeCalls + 1
  /\ IF initializeGuard(loading, ready)
     THEN /\ resolvedCalls' = resolvedCalls + 1
          /\ resolved' = "guard"
          /\ UNCHANGED <<ready, loading, mode, loads, loadsPending>>
     ELSE IF navigatorGpu
     THEN /\ loading' = TRUE
          /\ loads' = loads + 1
          /\ loadsPending' = loadsPending + 1
          /\ UNCHANGED <<ready, mode, resolvedCalls, resolved>>
     ELSE /\ mode' = "pattern"
          /\ ready' = TRUE
          /\ loading' = FALSE
          /\ resolvedCalls' = resolvedCalls + 1
          /\ resolved' = "pattern"
          /\ UNCHANGED <<loads, loadsPending>>
  /\ UNCHANGED <<loadError, navigatorGpu, status, engine>>
  /\ UNCHANGED <<tabs, maxGroups, pc, retryCount, requests, response, result, via>>
  /\ UNCHANGED <<groupingVars, storageVars, settingsVars, overlapVars>>

\* webllm.CreateMLCEngine resolves, and initialize() runs to its end
CreateMLCEngineResolves ==
  /\ loadsPending > 0
  /\ loadsPending' = loadsPending - 1
  /\ engine' = TRUE
  /\ ready' = TRUE
  /\ mode' = "gpu"
  /\ loading' = FALSE
  /\ resolvedCalls' = resolvedCalls + 1
  /\ resolved' = "gpu"
  /\ UNCHANGED <<loadError, navigatorGpu, initializeCalls, loads, status>>
  /\ UNCHANGED <<tabs, maxGroups, pc, retryCount, requests, response, result, via>>
  /\ UNCHANGED <<groupingVars, storageVars, settingsVars, overlapVars>>

\* webllm.CreateMLCEngine rejects, and initialize() runs to its end; reading
\* gpuError.message throws when the rejection carries no object, and the outer
\* catch takes over
CreateMLCEngineRejects ==
  /\ loadsPending > 0
  /\ loadsPending' = loadsPending - 1
  /\ \E hasMessage \in BOOLEAN :
       /\ loadError' = IF hasMessage THEN loadError ELSE "Cannot read properties"
       /\ resolved' = IF hasMessage THEN "pattern" ELSE "error"
  /\ mode' = "pattern"
  /\ ready' = TRUE
  /\ loading' = FALSE
  /\ resolvedCalls' = resolvedCalls + 1
  /\ UNCHANGED <<engine, navigatorGpu, initializeCalls, loads, status>>
  /\ UNCHANGED <<tabs, maxGroups, pc, retryCount, requests, response, result, via>>
  /\ UNCHANGED <<groupingVars, storageVars, settingsVars, overlapVars>>

\* getStatus() at any moment
GetStatus ==
  /\ status' = getStatus(loading, ready, mode, loadError)
  /\ UNCHANGED <<ready, loading, loadError, navigatorGpu, initializeCalls, loads,
                 loadsPending, resolvedCalls, resolved>>
  /\ UNCHANGED <<classifyVars, groupingVars, storageVars, settingsVars, overlapVars>>

NextInitialize ==
  \/ Initialize
  \/ CreateMLCEngineResolves
  \/ CreateMLCEngineRejects
  \/ GetStatus

SpecInitialize == InitInitialize /\ [][NextInitialize]_vars

\* ------------------------------------------- StorageManager: group history

HistoryLimit == 50

MaxSaveCalls == 2

\* what createGroups hands to saveGroupHistory
SavedGroupLists ==
  { <<>>,
    <<[id |-> 41, name |-> "Dev", color |-> "blue", tabCount |-> 2],
      [id |-> 42, name |-> "Other", color |-> "grey", tabCount |-> 1]>> }

\* groups.map(g => ({ name, color, tabCount }))
entryGroups(gs) ==
  [i \in 1..Len(gs) |-> [name |-> gs[i].name, color |-> gs[i].color, tabCount |-> gs[i].tabCount]]

\* a history of n entries saved before FirstTimestamp, newest first
oldHistory(n) == [i \in 1..n |-> [timestamp |-> n - i + 1, groups |-> <<>>]]

\* the history arrays importData is given: exports of other profiles, of up to
\* the limit and beyond it, and one that lists the oldest entry first
ImportedHistories ==
  {oldHistory(n) : n \in {0, 1, HistoryLimit - 1, HistoryLimit, HistoryLimit + 1, HistoryLimit + 3}}
    \cup { <<[timestamp |-> 1, groups |-> <<>>], [timestamp |-> 2, groups |-> <<>>]>> }

\* history.unshift(entry); if (history.length > 50) history.pop()
unshiftAndPop(history, entry) ==
  LET unshifted == <<entry>> \o history
  IN IF Len(unshifted) > HistoryLimit THEN SubSeq(unshifted, 1, Len(unshifted) - 1)
     ELSE unshifted

InitHistory ==
  /\ storedHistory = <<>> /\ clock = FirstTimestamp /\ saveCalls = 0
  /\ savePc = [c \in SaveCallers |-> "idle"]
  /\ saveHistory = [c \in SaveCallers |-> <<>>]
  /\ historyWriter = "none"
  /\ ClassifyIdle /\ LimitIdle /\ EmptyHost /\ ReconcileIdle
  /\ CleanupIdle /\ SanitizeIdle /\ AssignIdle /\ InitializeIdle /\ SettingsIdle
  /\ OverlapIdle

\* importData(data) with data.history set
ImportData ==
  /\ saveCalls < MaxSaveCalls
  /\ \E history \in ImportedHistories :
       /\ storedHistory # history
       /\ storedHistory' = history
  /\ historyWriter' = "importData"
  /\ UNCHANGED <<clock, saveCalls, savePc, saveHistory>>
  /\ UNCHANGED <<classifyVars, groupingVars, initializeVars, settingsVars, overlapVars>>

\* saveGroupHistory(groups) up to its chrome.storage.local.set: the history is
\* fetched ([] when the read fails), the entry put in front and one entry
\* dropped from the end if there are more than 50
SaveGroupHistoryReads(c) ==
  /\ savePc[c] = "idle"
  /\ saveCalls < MaxSaveCalls
  /\ saveCalls' = saveCalls + 1
  /\ \E gs \in SavedGroupLists, readFailed \in BOOLEAN :
       saveHistory' =
         [saveHistory EXCEPT ![c] =
            unshiftAndPop(IF readFailed THEN <<>> ELSE storedHistory,
                          [timestamp |-> clock, groups |-> entryGroups(gs)])]
  /\ savePc' = [savePc EXCEPT ![c] = "read"]
  /\ \E dt \in {0, 1} : clock' = clock + dt
  /\ UNCHANGED <<storedHistory, historyWriter>>
  /\ UNCHANGED <<classifyVars, groupingVars, initializeVars, settingsVars, overlapVars>>

\* the chrome.storage.local.set of saveGroupHistory: the array is stored, or the
\* write is rejected and the catch logs it
SaveGroupHistoryWrites(c) ==
  /\ savePc[c] = "read"
  /\ \E stored \in BOOLEAN :
       /\ storedHistory' = IF stored THEN saveHistory[c] ELSE storedHistory
       /\ historyWriter' = IF stored THEN "saveGroupHistory" ELSE historyWriter
  /\ savePc' = [savePc EXCEPT ![c] = "idle"]
  /\ saveHistory' = [saveHistory EXCEPT ![c] = <<>>]
  /\ UNCHANGED <<clock, saveCalls>>
  /\ UNCHANGED <<classifyVars, groupingVars, initializeVars, settingsVars, overlapVars>>

NextHistory ==
  \/ ImportData
  \/ \E c \in SaveCallers : SaveGroupHistoryReads(c)
  \/ \E c \in SaveCallers : SaveGroupHistoryWrites(c)

SpecHistory == InitHistory /\ [][NextHistory]_vars

\* ------------------------------------------------ settings and their requests

MaxRequests == 3

SettingKeys == {"autoMode", "maxGroups", "llmModel", "theme"}

\* result[this.storageKey.settings] || { the defaults }
settingsOf(stored) == IF stored = Absent THEN defaultSettings ELSE stored[1]

\* { ...current, ...updates } for the one-key updates the handlers pass
spread(currentSettings, updates) ==
  [k \in SettingKeys |-> IF k = updates.key THEN updates.value ELSE currentSettings[k]]

\* the settings messages the popup sends
SettingsRequests ==
  {[action |-> "toggleAutoMode", value |-> b] : b \in BOOLEAN}
    \cup {[action |-> "updateMaxGroups", value |-> m] : m \in {3, 7}}

\* the argument the handler passes to updateSettings
updatesOf(req) ==
  IF req.action = "toggleAutoMode" THEN [key |-> "autoMode", value |-> req.value]
  ELSE [key |-> "maxGroups", value |-> req.value]

\* what is stored when the service worker starts: nothing, or settings saved
\* earlier; initializeExtension has copied autoMode and maxGroups
InitSettings ==
  /\ storedSettings \in
       {Absent,
        <<[autoMode |-> TRUE, maxGroups |-> 7, llmModel |-> "TinyLlama", theme |-> "default"]>>}
  /\ isAutoMode = settingsOf(storedSettings).autoMode
  /\ thisMaxGroups = settingsOf(storedSettings).maxGroups
  /\ requestsMade = 0
  /\ reqPc = [h \in Handlers |-> "idle"]
  /\ request = [h \in Handlers |-> NoRequest]
  /\ current = [h \in Handlers |-> defaultSettings]
  /\ previous = [h \in Handlers |-> [isAutoMode |-> FALSE, maxGroups |-> 5]]
  /\ answered = NoAnswer
  /\ ClassifyIdle /\ LimitIdle /\ EmptyHost /\ ReconcileIdle
  /\ CleanupIdle /\ SanitizeIdle /\ AssignIdle /\ InitializeIdle /\ StorageIdle
  /\ OverlapIdle

\* handleMessage for toggleAutoMode or updateMaxGroups, to the first await of
\* updateSettings: the field is assigned, then the stored settings are asked for
HandleMessage(h) ==
  /\ reqPc[h] = "idle"
  /\ requestsMade < MaxRequests
  /\ requestsMade' = requestsMade + 1
  /\ \E req \in SettingsRequests :
       /\ request' = [request EXCEPT ![h] = req]
       /\ isAutoMode' = IF req.action = "toggleAutoMode" THEN req.value ELSE isAutoMode
       /\ thisMaxGroups' = IF req.action = "updateMaxGroups" THEN req.value ELSE thisMaxGroups
  /\ previous' = [previous EXCEPT ![h] = [isAutoMode |-> isAutoMode, maxGroups |-> thisMaxGroups]]
  /\ reqPc' = [reqPc EXCEPT ![h] = "getSettings"]
  /\ UNCHANGED <<storedSettings, current, answered>>
  /\ UNCHANGED <<classifyVars, groupingVars, initializeVars, storageVars, overlapVars>>

\* getSettings returns to updateSettings: what is stored, or the defaults when
\* nothing is stored or the read failed
GetSettingsReturns(h) ==
  /\ reqPc[h] = "getSettings"
  /\ \E readFailed \in BOOLEAN :
       current' = [current EXCEPT ![h] =
                     IF readFailed THEN defaultSettings ELSE settingsOf(storedSettings)]
  /\ reqPc' = [reqPc EXCEPT ![h] = "set"]
  /\ UNCHANGED <<storedSettings, isAutoMode, thisMaxGroups, requestsMade, request, previous,
                 answered>>
  /\ UNCHANGED <<classifyVars, groupingVars, initializeVars, storageVars, overlapVars>>

\* chrome.storage.local.set settles: the merged settings are stored and the
\* handler answers success, or the write is rejected, updateSettings rethrows
\* and the handler's catch answers success: false
SetSettles(h) ==
  /\ reqPc[h] = "set"
  /\ \E stored \in BOOLEAN :
       /\ storedSettings' =
            IF stored THEN <<spread(current[h], updatesOf(request[h]))>> ELSE storedSettings
       /\ answered' = [handler |-> h, success |-> stored]
  /\ reqPc' = [reqPc EXCEPT ![h] = "idle"]
  /\ request' = [request EXCEPT ![h] = NoRequest]
  /\ current' = [current EXCEPT ![h] = defaultSettings]
  /\ UNCHANGED <<isAutoMode, thisMaxGroups, requestsMade, previous>>
  /\ UNCHANGED <<classifyVars, groupingVars, initializeVars, storageVars, overlapVars>>

NextSettings ==
  \/ \E h \in Handlers : HandleMessage(h)
  \/ \E h \in Handlers : GetSettingsReturns(h)
  \/ \E h \in Handlers : SetSettles(h)

SpecSettings == InitSettings /\ [][NextSettings]_vars

\* ------------------------------------------------- properties: categorizeTabs

elementsOf(s) == {s[i] : i \in 1..Len(s)}

countOf(s, x) == Cardinality({i \in 1..Len(s) : s[i] = x})

returnedTabIds == flatMapTabIds(result)

\* C1: whenever categorizeTabs has returned, in gpu mode and in pattern mode
\* and whatever the engine answered, no tab id occurs twice in the returned
\* groups and the ids that occur are exactly the ids of the input tabs.
CoverageOfCategorizeTabs ==
  pc = "returned" =>
    /\ \A i, j \in 1..Len(returnedTabIds) : i # j => returnedTabIds[i] # returnedTabIds[j]
    /\ elementsOf(returnedTabIds) = tabIdsOf(tabs)

\* a model result for two tabs from a mapping that names one of them and an
\* id the model invented: the other tab was added to Other
CoverageWitness ==
  /\ pc = "returned" /\ via = "model" /\ Len(tabs) = 2
  /\ Len(response.entries) = 2
  /\ response.entries[1].tabId \in tabIdsOf(tabs)
  /\ response.entries[2].tabId = HallucinatedId
  /\ findByName(result, Other) # 0
  /\ Len(result) = 2

\* C4: once the inference call has thrown, categorizeTabs has returned (no
\* request follows, nothing is raised) and its result is the heuristic
\* classification of the input tabs, which covers every input tab.
FallbackWhenInferenceThrows ==
  response.threw =>
    /\ pc = "returned"
    /\ via = "pattern"
    /\ result = patternBasedCategorization(tabs, maxGroups)
    /\ elementsOf(returnedTabIds) = tabIdsOf(tabs)

\* the first request threw; three tabs were classified by the heuristics
FallbackWitness ==
  /\ pc = "returned" /\ response.threw /\ requests = 1
  /\ Len(tabs) = 3 /\ Len(result) >= 2

\* the input tabs a mapping assigns a label to
assignedByResponse ==
  {response.entries[i].tabId :
     i \in {k \in 1..Len(response.entries) : response.entries[k].category # NonString}}
    \cap tabIdsOf(tabs)

leavesMoreThanHalf ==
  /\ response.json = "mapping"
  /\ 2 * (Len(tabs) - Cardinality(assignedByResponse)) > Len(tabs)

\* C5: when the mapping the model answered leaves more than half of the
\* input tabs unassigned, categorizeTabs has returned the heuristic
\* classification of all input tabs and made no request after that answer.
UnreliableResponseFallsBack ==
  leavesMoreThanHalf =>
    /\ pc = "returned"
    /\ via = "pattern"
    /\ result = patternBasedCategorization(tabs, maxGroups)
    /\ requests = retryCount + 1

\* after one retry the model assigned one of three tabs
UnreliableWitness ==
  /\ pc = "returned" /\ leavesMoreThanHalf
  /\ Len(tabs) = 3 /\ Cardinality(assignedByResponse) = 1
  /\ retryCount = 1 /\ requests = 2

\* C9: categorizeTabs returns at most maxGroups groups in every mode.
CapOnCategorizeTabs == pc = "returned" => Len(result) <= maxGroups

\* JSON.parse failed on the text extracted from the answer
parseFailure(r) == ~r.threw /\ ~extractionThrows(r) /\ r.json = "invalid"

\* what follows a parse failure under a retry budget
retriesBelow(budget) ==
  (pc = "requesting" /\ parseFailure(response')) =>
    IF retryCount < budget
    THEN pc' = "requesting" /\ retryCount' = retryCount + 1 /\ requests' = requests + 1
    ELSE /\ pc' = "returned" /\ via' = "pattern" /\ requests' = requests
         /\ result' = patternBasedCategorization(tabs, maxGroups)

\* C10 as stated: on a JSON parse failure the request is re-issued exactly
\* when retryCount < 3, and from retryCount = 3 on the classifier falls back.
RetryBudgetThree == [][retriesBelow(3)]_vars

\* C10 amended: on a JSON parse failure the request is re-issued exactly when
\* retryCount < 2, and once retryCount is 2 the classifier falls back to the
\* heuristic classification without a further request.
RetryBudgetTwo == [][retriesBelow(2)]_vars

\* the third answer did not parse either: three requests, then the fallback
RetryWitness ==
  /\ pc = "returned" /\ parseFailure(response)
  /\ retryCount = 2 /\ requests = 3 /\ via = "pattern"

\* C11: when the inference call throws, at the first request or after any
\* number of retries, that step ends the call with the heuristic
\* classification and issues no request.
InferenceErrorNeverRetried ==
  [][(pc = "requesting" /\ response'.threw) =>
       /\ pc' = "returned"
       /\ via' = "pattern"
       /\ requests' = requests
       /\ retryCount' = retryCount
       /\ result' = patternBasedCategorization(tabs, maxGroups)]_vars

\* two answers did not parse and the third request threw
InferenceErrorWitness ==
  /\ pc = "returned" /\ response.threw
  /\ retryCount = 2 /\ requests = 3 /\ via = "pattern" /\ Len(tabs) = 2

\* C12: every categorizeTabs call ends, and stays, in one of two terminal
\* states, a returned model result or a returned heuristic result, after at
\* most three inference requests, whatever the engine answers or throws.
CategorizeTabsTerminates ==
  <>[](pc = "returned" /\ via \in {"model", "pattern"} /\ requests <= 3)

\* a validated model result after two answers that did not parse
TerminatesWitness ==
  /\ pc = "returned" /\ via = "model" /\ retryCount = 2 /\ requests = 3
  /\ Len(tabs) = 3 /\ Len(result) >= 2

\* ---------------------------------------------------- properties: limitGroups

\* C7: limitGroups returns at most maxGroups groups, for every maxGroups >= 1
\* and every list of groups.
LimitRespectsCap == limitPc = "returned" => Len(limitOutput) <= limitMax

\* three groups, none named Other, limited to two: an Other group was made
LimitCapWitness ==
  /\ limitPc = "returned" /\ Len(limitInput) = 3 /\ limitMax = 2
  /\ findByName(limitInput, Other) = 0
  /\ \A i \in 1..3 : Len(limitInput[i].tabIds) > 0
  /\ Len(limitOutput) = 2

\* C8: every tab id occurs in the output groups of limitGroups as many times
\* as in its input groups.
LimitKeepsTabIds ==
  limitPc = "returned" =>
    \A id \in elementsOf(flatMapTabIds(limitInput)) \cup elementsOf(flatMapTabIds(limitOutput)) :
      countOf(flatMapTabIds(limitOutput), id) = countOf(flatMapTabIds(limitInput), id)

\* a kept Other group received the tabs of the two merged groups
LimitKeepsWitness ==
  /\ limitPc = "returned" /\ Len(limitInput) = 3 /\ limitMax = 2
  /\ limitInput[1].name = Other /\ Len(limitInput[1].tabIds) = 2
  /\ Len(limitInput[2].tabIds) = 1 /\ Len(limitInput[3].tabIds) = 1
  /\ Len(limitOutput) = 1
  /\ Len(limitOutput[1].tabIds) = 4

\* --------------------------------------------------- properties: createGroups

\* the tabs of some assignment that are in the supplied tabs and in the
\* target window
validlyAssigned ==
  UNION {elementsOf(validTabIdsOf(categories[i].tabIds, suppliedTabs, targetWindowId)) :
           i \in 1..Len(categories)}

returnedTabs == UNION {elementsOf(groups[i].tabs) : i \in 1..Len(groups)}

\* C6: when createGroups has returned, the tabs of the returned groups are
\* exactly the validly assigned tabs, and each of them is in the group its
\* entry names.
ReturnedGroupsCoverAssigned ==
  cgPc = "returned" =>
    /\ returnedTabs = validlyAssigned
    /\ \A i \in 1..Len(groups) : \A t \in elementsOf(groups[i].tabs) :
         tabGroup[t] = groups[i].id

groupsOfWindow(windowId) == {g \in DOMAIN hostGroups : hostGroups[g].windowId = windowId}

\* C2: when the second of two successive createGroups calls with the same
\* arguments has returned, it has created no group and no two groups of the
\* target window have the same normalized name (the name duplicate cleanup
\* compares groups by).
SecondRunIdempotent ==
  (cgPc = "returned" /\ run = 2) =>
    /\ nextGroupId = runStartGroupId
    /\ \A g, h \in groupsOfWindow(targetWindowId) :
         g # h => mergeName(hostGroups[g].title) # mergeName(hostGroups[h].title)

\* the groups createGroups found in the target window that are still live and
\* whose title is the name of category i up to case and surrounding whitespace
liveMatches(i) ==
  {existingGroups[k].id :
     k \in {j \in 1..Len(existingGroups) :
              /\ existingGroups[j].id \in DOMAIN hostGroups
              /\ trim(toLowerCase(existingGroups[j].title))
                   = trim(toLowerCase(categories[i].name))}}

\* C3: when createGroups has returned, every category with valid tabs whose
\* name matches the title of a live group of the target window was merged
\* into such a group: no group was created for it and its valid tabs are in
\* that group.
MergedIntoMatchingGroup ==
  cgPc = "returned" =>
    \A i \in 1..Len(categories) :
      (/\ Len(validTabIdsOf(categories[i].tabIds, suppliedTabs, targetWindowId)) > 0
       /\ liveMatches(i) # {}) =>
         /\ log[i].action = "merged into existing"
         /\ log[i].groupId \in liveMatches(i)
         /\ \A t \in elementsOf(validTabIdsOf(categories[i].tabIds, suppliedTabs, targetWindowId)) :
              tabGroup[t] = log[i].groupId

\* the valid tabs of the category the loop is at
validTabsAtIdx == validTabIdsOf(categories[idx].tabIds, suppliedTabs, targetWindowId)

\* the loop is at a category with valid tabs that is not skipped
reachesLookup ==
  /\ cgPc = "loop"
  /\ idx <= Len(categories)
  /\ Len(categories[idx].tabIds) > 0
  /\ processedKey(categories[idx].name) \notin processedCategories
  /\ Len(validTabsAtIdx) > 0

\* the group the lookup gives for the category the loop is at
matchedGroup == lookupExistingGroup(existingGroupsByName, categories[idx].name)

\* C13: when the group matched for a category is gone from the host, the pass
\* creates a group titled with the category name in the target window, puts
\* the category's valid tabs in it, stays in the loop and appends the category
\* to the groups it returns.
StaleGroupRecreated ==
  [][(reachesLookup /\ matchedGroup # NoGroup /\ matchedGroup.id \notin DOMAIN hostGroups) =>
       /\ cgPc' = "loop"
       /\ idx' = idx + 1
       /\ nextGroupId' = nextGroupId + 1
       /\ nextGroupId \in DOMAIN hostGroups'
       /\ hostGroups'[nextGroupId].title = categories[idx].name
       /\ hostGroups'[nextGroupId].windowId = targetWindowId
       /\ \A t \in elementsOf(validTabsAtIdx) : tabGroup'[t] = nextGroupId
       /\ Len(groups') = Len(groups) + 1
       /\ groups'[Len(groups')].name = categories[idx].name
       /\ groups'[Len(groups')].id = nextGroupId
       /\ groups'[Len(groups')].tabs = validTabsAtIdx]_vars

StaleGroupWitness ==
  /\ cgPc = "returned"
  /\ \E i \in 1..Len(log) :
       /\ log[i].action = "created new (existing unavailable)"
       /\ log[i].groupId \in DOMAIN hostGroups
       /\ hostGroups[log[i].groupId].title = categories[i].name
       /\ \E k \in 1..Len(groups) : groups[k].id = log[i].groupId
       /\ \E k \in 1..Len(existingGroups) :
            /\ existingGroups[k].id \notin DOMAIN hostGroups
            /\ trim(toLowerCase(existingGroups[k].title)) = trim(toLowerCase(categories[i].name))

\* the actions of a pass whose group operation succeeded
succeededActions ==
  {"merged into existing", "created new", "created new (existing unavailable)"}

\* the names of the categories whose pass succeeded, in batch order
succeededNames ==
  LET passes == [i \in 1..Len(log) |-> [name |-> categories[i].name, action |-> log[i].action]]
      kept == SelectSeq(passes, LAMBDA e : e.action \in succeededActions)
  IN [k \in 1..Len(kept) |-> kept[k].name]

\* C14: a host failure inside a pass never ends the call, so the call throws
\* only before its first pass; when createGroups has returned, every category
\* has had its pass, the returned list names exactly the categories whose
\* group operation succeeded, in batch order, and each returned group is live
\* and holds its tabs.
CategoryFailureContained ==
  /\ cgPc = "threw" => log = <<>>
  /\ cgPc = "returned" =>
       /\ Len(log) = Len(categories)
       /\ [k \in 1..Len(groups) |-> groups[k].name] = succeededNames
       /\ \A k \in 1..Len(groups) :
            /\ groups[k].id \in DOMAIN hostGroups
            /\ \A t \in elementsOf(groups[k].tabs) : tabGroup[t] = groups[k].id

CategoryFailureWitness ==
  /\ cgPc = "returned"
  /\ Len(categories) = 2
  /\ log[1].action = "failed"
  /\ log[2].action = "created new"
  /\ Len(groups) = 1
  /\ groups[1].name = categories[2].name
  /\ tabGroup[11] = groups[1].id

\* C15: whichever host call fails, neither createGroups nor organizeTabs
\* throws.
NoHostFailureAborts ==
  /\ cgPc # "threw"
  /\ organizeTabsOutcome(cgPc) # "threw"

\* the supplied tabs that are in the target window
suppliedInWindow(windowId) == {t \in elementsOf(suppliedTabs) : windowIdOf(t) = windowId}

\* C16: every step of createGroups moves only tabs of the target window, and
\* only into groups of the target window; the tabs of the groups it returns
\* are supplied tabs of the target window, ids of other tabs being dropped.
StaysInTargetWindow ==
  [][/\ \A t \in HostTabs :
          tabGroup'[t] # tabGroup[t] =>
            /\ windowIdOf(t) = targetWindowId'
            /\ tabGroup'[t] \in DOMAIN hostGroups'
            /\ hostGroups'[tabGroup'[t]].windowId = targetWindowId'
     /\ cgPc' # "threw" =>
          \A k \in 1..Len(groups') :
            elementsOf(groups'[k].tabs) \subseteq suppliedInWindow(targetWindowId')]_vars

\* C17: a call of mergeDuplicateGroups that follows a completed call moves no
\* tab, leaves every group as it is and returns 0.
CleanupIdempotent ==
  [][mergeCalls >= 1 =>
       /\ tabGroup' = tabGroup
       /\ hostGroups' = hostGroups
       /\ mergeReturned' = 0]_vars

CleanupWitness ==
  /\ mergeCalls = 2
  /\ mergeReturned = 0
  /\ currentWindow = 1
  /\ tabGroup[12] = 41
  /\ tabGroup[13] = 41
  /\ DOMAIN hostGroups = {41, 44, 45}

groupsNamed(windowId, name) ==
  {g \in groupsOfWindow(windowId) : trim(toLowerCase(hostGroups[g].title)) = name}

\* C18: when assignTabToGroup creates a group for the tab, no group that was
\* in the tab's window has the normalized name (lower case, trimmed) of the
\* new group.
AssignCreatesNoDuplicate ==
  [][(assignPc = "idle" /\ assignPc' = "created") =>
       groupsNamed(windowIdOf(newTab.id),
                   trim(toLowerCase(hostGroups'[tabGroup'[newTab.id]].title))) = {}]_vars

\* the groups of a result as name and tab ids
membershipOf(gs) == {[name |-> gs[i].name, tabIds |-> gs[i].tabIds] : i \in 1..Len(gs)}

\* C20: heuristic classification of the five tabs with maxGroups = 5 returns
\* exactly the four groups Dev:[1,5], Entertainment:[2], Work:[3], Other:[4].
HeuristicExampleFourGroups ==
  (pc = "returned" /\ via = "pattern" /\ tabs = ExampleTabs /\ maxGroups = 5) =>
    /\ Len(result) = 4
    /\ membershipOf(result) =
         { [name |-> <<"D","e","v">>, tabIds |-> <<1, 5>>],
           [name |-> <<"E","n","t","e","r","t","a","i","n","m","e","n","t">>, tabIds |-> <<2>>],
           [name |-> <<"W","o","r","k">>, tabIds |-> <<3>>],
           [name |-> Other, tabIds |-> <<4>>] }

\* C21: the groups createGroups queried in its target window, cleanup having
\* run before the query, are pairwise of different normalized names, whichever
\* window is the browser's current one.
SnapshotDeduplicated ==
  cgPc = "loop" =>
    \A i, j \in 1..Len(existingGroups) :
      i # j => mergeName(existingGroups[i].title) # mergeName(existingGroups[j].title)

\* the passes of this call that created a group
createdActions == {"created new", "created new (existing unavailable)"}

\* category j comes after category i, has valid tabs, and its name is that of
\* category i up to case, whitespace, hyphens and underscores
laterSameName(i, j) ==
  /\ i < j
  /\ normalizedNoSpecial(categories[i].name) = normalizedNoSpecial(categories[j].name)
  /\ Len(validTabIdsOf(categories[j].tabIds, suppliedTabs, targetWindowId)) > 0

\* C22: when createGroups has returned, every category that follows a category
\* a group was created for, and has the same normalized name, was merged into
\* that group.
LaterCategoryJoinsCreatedGroup ==
  cgPc = "returned" =>
    \A i, j \in 1..Len(log) :
      (log[i].action \in createdActions /\ laterSameName(i, j)) =>
        /\ log[j].action = "merged into existing"
        /\ log[j].groupId = log[i].groupId

\* C23: with one group of the target window titled "Tab Dev", "tabdev" or
\* "tab-dev" and a category named by any of the three spellings, the pass of
\* that category creates no group: it merges into the existing group, which
\* then holds the category's valid tabs.
SpellingsResolveToGroup ==
  (/\ Len(log) >= 1
   /\ Len(existingGroups) = 1
   /\ existingGroups[1].title \in Spellings
   /\ categories[1].name \in Spellings) =>
     /\ log[1].action = "merged into existing"
     /\ log[1].groupId = existingGroups[1].id
     /\ existingGroups[1].id \in DOMAIN hostGroups
     /\ \A t \in elementsOf(validTabIdsOf(categories[1].tabIds, suppliedTabs, targetWindowId)) :
          tabGroup[t] = existingGroups[1].id

SpellingsWitness ==
  /\ cgPc = "returned"
  /\ existingGroups[1].title = <<"t","a","b","-","d","e","v">>
  /\ categories[1].name = <<"T","a","b"," ","D","e","v">>
  /\ log[1].action = "merged into existing"
  /\ tabGroup[10] = 42
  /\ nextGroupId = FirstGroupId

\* C24: with one group of the target window titled general, misc,
\* miscellaneous or not at all, the first call's pass of a category named
\* Other creates no group: it merges into that group.
OtherJoinsAliasedGroup ==
  (/\ run = 1
   /\ Len(log) >= 1
   /\ Len(existingGroups) = 1
   /\ existingGroups[1].title \in AliasTitles
   /\ categories[1].name = Other) =>
     /\ log[1].action = "merged into existing"
     /\ log[1].groupId = existingGroups[1].id
     /\ \A g \in DOMAIN hostGroups : hostGroups[g].title # Other

\* ------------------------------------------- properties: mergeDuplicateGroups

\* the tabs a group holds
tabCountOf(g) == Cardinality({t \in DOMAIN tabGroup : tabGroup[t] = g})

\* the groups of the current window filed under the normalized name of group g
sameNameAs(g) ==
  {h \in groupsOfWindow(currentWindow) : mergeName(hostGroups[h].title) = mergeName(hostGroups[g].title)}

\* among them the one with the most tabs, the first in query order on a tie
survivorFor(g) ==
  CHOOSE s \in sameNameAs(g) :
    \A h \in sameNameAs(g) :
      tabCountOf(s) > tabCountOf(h) \/ (tabCountOf(s) = tabCountOf(h) /\ s <= h)

\* C25: a call of mergeDuplicateGroups leaves every tab of a group of the
\* current window in the group that has the most tabs among the groups of the
\* same normalized name (the first in query order on a tie), which is its own
\* group when the name is unique; tabs of other windows and ungrouped tabs
\* stay as they are, so the set of grouped tabs is unchanged.
MergeKeepsLargest ==
  [][/\ \A t \in HostTabs :
          tabGroup'[t] =
            IF tabGroup[t] = NoGroupId THEN NoGroupId
            ELSE IF hostGroups[tabGroup[t]].windowId # currentWindow THEN tabGroup[t]
            ELSE survivorFor(tabGroup[t])
     /\ {t \in HostTabs : tabGroup'[t] # NoGroupId} = {t \in HostTabs : tabGroup[t] # NoGroupId}]_vars

\* group 41 (tab 10) gave its tab to the larger group 42, and the unique
\* group 43 kept tab 13
MergeKeepsLargestWitness ==
  /\ mergeCalls = 1
  /\ currentWindow = 1
  /\ mergeReturned = 1
  /\ 41 \notin DOMAIN hostGroups
  /\ tabGroup[10] = 42 /\ tabGroup[11] = 42 /\ tabGroup[12] = 42
  /\ tabGroup[13] = 43

\* ----------------------------------------- properties: cleanupAllDuplicates

\* C26: a call of cleanupAllDuplicates on a host that accepts every call
\* leaves the current window with at most one group per normalized name
\* (general, misc, miscellaneous and untitled counting as other), and every
\* tab that was in a group of the current window before the call is
\* afterwards in the group of the current window that carries its former
\* normalized name.
OneGroupPerNameAfterCleanup ==
  [][ /\ \A g, h \in DOMAIN hostGroups' :
           (/\ g # h
            /\ hostGroups'[g].windowId = currentWindow
            /\ hostGroups'[h].windowId = currentWindow)
             => cleanupName(hostGroups'[g].title) # cleanupName(hostGroups'[h].title)
      /\ \A t \in HostTabs :
           (/\ tabGroup[t] # NoGroupId
            /\ hostGroups[tabGroup[t]].windowId = currentWindow)
             => /\ tabGroup'[t] \in DOMAIN hostGroups'
                /\ hostGroups'[tabGroup'[t]].windowId = currentWindow
                /\ cleanupName(hostGroups'[tabGroup'[t]].title)
                     = cleanupName(hostGroups[tabGroup[t]].title) ]_vars

\* three groups of window 1 titled General, misc and untitled have become
\* one group Other holding tabs 10 to 13
OneGroupPerNameWitness ==
  /\ cleanupCalls = 1
  /\ currentWindow = 1
  /\ cleanupReturned = [processed |-> 4, consolidated |-> 1]
  /\ \A t \in {10, 11, 12, 13} : tabGroup[t] = FirstGroupId
  /\ hostGroups[FirstGroupId].title = Other
  /\ {41, 42, 43} \cap DOMAIN hostGroups = {}

\* C27: an answer with no JSON object or array in it, or with an opening
\* bracket and no matching closing one, is retried like any other malformed
\* answer: the request is re-issued while retryCount is below the retry
\* budget of 2, and only then does the classifier fall back.
UnextractableAnswerRetried ==
  [][(pc = "requesting" /\ ~response'.threw /\ extractionThrows(response')) =>
       IF shouldRetry(retryCount)
       THEN pc' = "requesting" /\ retryCount' = retryCount + 1 /\ requests' = requests + 1
       ELSE pc' = "returned" /\ via' = "pattern"]_vars

\* the answer is a mapping of tab ids to labels that leaves some of the
\* input tabs out, but not more than half of them
leavesSomeAtMostHalf ==
  /\ response.json = "mapping"
  /\ \A i \in 1..Len(response.entries) : response.entries[i].category # NonString
  /\ Cardinality(assignedByResponse) < Len(tabs)
  /\ 2 * (Len(tabs) - Cardinality(assignedByResponse)) <= Len(tabs)

\* the label the mapping gives a tab: that of the first entry with its id
labelInResponse(tabId) ==
  response.entries[CHOOSE i \in 1..Len(response.entries) :
                     /\ response.entries[i].tabId = tabId
                     /\ \A j \in 1..(i - 1) : response.entries[j].tabId # tabId].category

namedGroups(name) == {i \in 1..Len(result) : result[i].name = name}

MissingTabsNewOtherWitness ==
  /\ pc = "returned" /\ leavesSomeAtMostHalf
  /\ Len(tabs) = 3 /\ Cardinality(assignedByResponse) = 2
  /\ Len(result) = 3 /\ result[3].name = Other /\ Len(result[3].tabIds) = 1

\* a label that matches no name of the vocabulary, whatever its case and
\* the whitespace around it
inventedLabel(label) ==
  \E wanted \in {trim(toLowerCase(label))} :
    \A i \in 1..Len(VALID_CATEGORIES) : wanted # lowerCaseCategories[i]

\* C29: every group name of a categorizeTabs result, in gpu mode and in
\* pattern mode, is one of VALID_CATEGORIES, no two groups of a result have
\* the same name, and a tab the model gave an invented label is in the
\* group Other.
NamesFromVocabulary ==
  pc = "returned" =>
    /\ \A i \in 1..Len(result) : result[i].name \in elementsOf(VALID_CATEGORIES)
    /\ \A i, j \in 1..Len(result) : i # j => result[i].name # result[j].name
    /\ via = "model" =>
         \A t \in assignedByResponse :
           inventedLabel(labelInResponse(t)) =>
             \E i \in namedGroups(Other) :
               \E k \in 1..Len(result[i].tabIds) : result[i].tabIds[k] = t

\* the model labelled one tab " dev " and another "Blah": the groups
\* returned are Dev and Other
NamesFromVocabularyWitness ==
  /\ pc = "returned" /\ via = "model"
  /\ Len(response.entries) = 2
  /\ response.entries[1].category = <<" ","d","e","v"," ">>
  /\ response.entries[2].category = <<"B","l","a","h">>
  /\ Len(result) = 2
  /\ result[1].name = <<"D","e","v">> /\ result[2].name = Other
  /\ result[2].tabIds = <<response.entries[2].tabId>>

\* the answer parsed to an object whose groups key holds {name, color,
\* tabIds} entries, written as an array or as an object
groupsFormatAnswer ==
  ~response.threw /\ ~extractionThrows(response) /\ response.json = "groups"

\* C30: when the model answers in the groups-array format, categorizeTabs
\* has returned groups derived from the answer of the model, with names of
\* the vocabulary, no name twice, and every input tab in exactly one group.
GroupsFormatKept ==
  groupsFormatAnswer =>
    /\ pc = "returned"
    /\ via = "model"
    /\ \A i \in 1..Len(result) : result[i].name \in elementsOf(VALID_CATEGORIES)
    /\ \A i, j \in 1..Len(result) : i # j => result[i].name # result[j].name
    /\ elementsOf(returnedTabIds) = tabIdsOf(tabs)
    /\ Len(returnedTabIds) = Len(tabs)

\* the input of limitGroups as patternBasedCategorization builds it: the
\* values of a Map keyed by name, each holding a tab
groupsOfMap ==
  /\ \A i, j \in 1..Len(limitInput) : i # j => limitInput[i].name # limitInput[j].name
  /\ \A i \in 1..Len(limitInput) : limitInput[i].tabIds # <<>>

\* the positions of the input groups by falling number of tabs, groups of
\* equal size in input order
bySize ==
  CHOOSE p \in [1..Len(limitInput) -> 1..Len(limitInput)] :
    /\ \A i, j \in 1..Len(limitInput) : i # j => p[i] # p[j]
    /\ \A i, j \in 1..Len(limitInput) :
         i < j => \/ Len(limitInput[p[i]].tabIds) > Len(limitInput[p[j]].tabIds)
                  \/ /\ Len(limitInput[p[i]].tabIds) = Len(limitInput[p[j]].tabIds)
                     /\ p[i] < p[j]

largestGroups == [i \in 1..(limitMax - 1) |-> limitInput[bySize[i]]]

otherGroups == [i \in 1..(Len(limitInput) - limitMax + 1) |-> limitInput[bySize[limitMax - 1 + i]]]

\* what the limiter is to return for more than maxGroups groups
mergedIntoOther ==
    /\ limitOutput =
         IF \E i \in 1..Len(largestGroups) : largestGroups[i].name = Other
         THEN [i \in 1..Len(largestGroups) |->
                 IF largestGroups[i].name = Other
                 THEN [largestGroups[i] EXCEPT !.tabIds = @ \o flatMapTabIds(otherGroups)]
                 ELSE largestGroups[i]]
         ELSE Append(largestGroups,
                     [name |-> Other, color |-> "grey", tabIds |-> flatMapTabIds(otherGroups)])
    /\ Cardinality({i \in 1..Len(limitOutput) : limitOutput[i].name = Other}) = 1

\* LocalLLM.limitGroups given more than maxGroups groups returns the
\* maxGroups - 1 largest groups and one group Other with all other tab ids
LimitGroupsMergesIntoOther ==
  (limitPc = "returned" /\ groupsOfMap /\ Len(limitInput) > limitMax) => mergedIntoOther

\* C31: when a limiter, limitGroups of LocalLLM or the limiting step of
\* fallbackCategorization of the offscreen document, is given more than
\* maxGroups groups, it returns the maxGroups - 1 groups with the most
\* tabs, ties in input order, and the tab ids of all other groups in one
\* group Other coloured grey, which is the kept group Other with those ids
\* appended if there is one; the output holds one group named Other.
LimitMergesIntoOther ==
  (limitPc \in {"returned", "offscreenReturned"} /\ groupsOfMap /\ Len(limitInput) > limitMax)
    => mergedIntoOther

\* the limiting step of the offscreen document returns one group named
\* Other at most
OffscreenSingleOther ==
  (limitPc = "offscreenReturned" /\ groupsOfMap)
    => Cardinality({i \in 1..Len(limitOutput) : limitOutput[i].name = Other}) <= 1

\* the example: Dev:[1,5] and three groups of one tab at maxGroups = 2
LimitExampleWitness ==
  /\ limitPc = "returned" /\ limitInput = LimitExample /\ limitMax = 2
  /\ limitOutput = << [name |-> <<"D","e","v">>, color |-> "blue", tabIds |-> <<1, 5>>],
                      [name |-> Other, color |-> "grey", tabIds |-> <<2, 3, 4>>] >>

\* a kept group Other received the tab of the merged group
LimitKeptOtherWitness ==
  /\ limitPc = "returned" /\ groupsOfMap /\ limitMax = 2
  /\ Len(limitInput) = 3 /\ limitInput[1].name = Other /\ limitInput[1].tabIds = <<2, 3>>
  /\ limitInput[2].tabIds = <<1>> /\ limitInput[3].tabIds = <<1>>
  /\ limitOutput = << [name |-> Other, color |-> "blue", tabIds |-> <<2, 3, 1, 1>>] >>

\* ------------------------------------ properties: patternBasedCategorization

\* the match lengths of every rule on every tab of the pool: over domain
\* and title, and over ogSiteName and applicationName
RuleLengths ==
  [t \in {HeuristicPool[i] : i \in 1..Len(HeuristicPool)} |->
     [k \in 1..Len(patterns) |->
        [page |-> matchLength(t.domain, patterns[k].alts) + matchLength(t.title, patterns[k].alts),
         site |-> matchLength(t.ogSiteName, patterns[k].alts)
                    + matchLength(t.applicationName, patterns[k].alts)]]]

\* the category of the first rule among those with the largest total, Other
\* when every total is 0
longestRule(totals) ==
  IF \A k \in 1..Len(patterns) : totals[k] = 0 THEN Other
  ELSE patterns[CHOOSE k \in 1..Len(patterns) :
                  /\ \A j \in 1..Len(patterns) : totals[j] <= totals[k]
                  /\ \A j \in 1..(k - 1) : totals[j] < totals[k]].cat

\* the name of the returned group that holds a tab
groupNameOf(tabId) ==
  result[CHOOSE i \in 1..Len(result) :
           \E k \in 1..Len(result[i].tabIds) : result[i].tabIds[k] = tabId].name

\* ogType or schemaType names a category
hinted(tab) == schemaTypeCategory(tab, ogTypeCategory(tab)) # NoCategory

\* C32 as stated: every tab is given the category of the rule with the
\* largest summed match length over its domain and title, the earlier rule
\* on a tie, and Other when no rule matches.
LongestRuleOverDomainAndTitle ==
  (pc = "returned" /\ Len(tabs) <= maxGroups) =>
    \A i \in 1..Len(tabs) :
      groupNameOf(tabs[i].id)
        = longestRule([k \in 1..Len(patterns) |-> RuleLengths[tabs[i]][k].page])

\* C32 amended: a tab whose ogType or schemaType names a category is given
\* that category; every other tab is given the category of the rule with
\* the largest summed match length over its domain, title, ogSiteName and
\* applicationName, the earlier rule on a tie, and Other when no rule
\* matches.
LongestRuleUnlessHinted ==
  (pc = "returned" /\ Len(tabs) <= maxGroups) =>
    \A i \in 1..Len(tabs) :
      groupNameOf(tabs[i].id)
        = IF hinted(tabs[i]) THEN schemaTypeCategory(tabs[i], ogTypeCategory(tabs[i]))
          ELSE longestRule([k \in 1..Len(patterns) |->
                              RuleLengths[tabs[i]][k].page + RuleLengths[tabs[i]][k].site])

\* a tie of Dev and Cloud at 3 goes to Dev, and Cloud wins with 6 over
\* domain and title against Dev with 3
LongestRuleWitness ==
  /\ pc = "returned" /\ maxGroups = 2
  /\ Len(tabs) = 2 /\ tabs[1].id = 33 /\ tabs[2].id = 38
  /\ RuleLengths[tabs[1]][1].page = 3 /\ RuleLengths[tabs[1]][7].page = 3
  /\ RuleLengths[tabs[2]][1].page = 3 /\ RuleLengths[tabs[2]][7].page = 6
  /\ result = << [name |-> <<"D","e","v">>, color |-> selectColor(<<"D","e","v">>), tabIds |-> <<33>>],
                 [name |-> <<"C","l","o","u","d">>, color |-> selectColor(<<"C","l","o","u","d">>), tabIds |-> <<38>>] >>

\* --------------------------------------------------- properties: initialize

\* what C33 promises of the object at the moment a call resolves
readyAfterInitialize ==
  /\ ready' /\ ~loading'
  /\ mode' \in {"gpu", "pattern"}
  /\ (mode' = "gpu" => engine')
  /\ getStatus(loading', ready', mode', loadError') =
       [status |-> "ready",
        message |-> IF mode' = "gpu" THEN "WebGPU acceleration active"
                    ELSE "Smart pattern matching active"]

\* C33 as stated: whenever an initialize() call resolves, ready is true, loading
\* is false, mode is gpu (only with an engine) or pattern, and getStatus
\* reports ready with that mode; getStatus never reports error
ReadyWhenInitializeResolves ==
  /\ [](getStatus(loading, ready, mode, loadError).status # "error")
  /\ [][resolvedCalls' > resolvedCalls => readyAfterInitialize]_vars

\* C33, amended: the same of every call but one that returns at the guard while
\* another call's load is in progress
ReadyWhenInitializeRuns ==
  /\ [](getStatus(loading, ready, mode, loadError).status # "error")
  /\ [][(resolvedCalls' > resolvedCalls /\ ~(resolved' = "guard" /\ loading))
          => readyAfterInitialize]_vars

\* the load threw, its error had no message, and getStatus was asked afterwards
LoadThrewWitness ==
  /\ loads = 1 /\ resolved = "error" /\ loadError # "null"
  /\ mode = "pattern" /\ ready /\ ~loading /\ ~engine
  /\ status.status = "ready"

\* C40: at most one model load is ever started, and a call made while a load is
\* in progress or after ready is set returns without starting one
AtMostOneLoad ==
  /\ [](loads <= 1 /\ loadsPending <= 1)
  /\ [][(initializeCalls' > initializeCalls /\ (loading \/ ready))
          => (loads' = loads /\ resolvedCalls' > resolvedCalls)]_vars

\* one call returned while the load of another was in progress, and one more
\* after it had ended
RepeatedCallsWitness ==
  /\ initializeCalls >= 3 /\ resolvedCalls = initializeCalls /\ loads = 1
  /\ resolved = "guard" /\ ready /\ mode = "gpu"

\* ------------------------------------------------ properties: group history

newestFirst(history) ==
  \A i \in 1..Len(history) - 1 : history[i].timestamp >= history[i + 1].timestamp

\* C34: once saveGroupHistory has stored the history it holds at most 50
\* entries, newest first, whatever was stored before
HistoryCappedNewestFirst ==
  historyWriter = "saveGroupHistory" =>
    (Len(storedHistory) <= HistoryLimit /\ newestFirst(storedHistory))

\* what the code does keep: a save never makes the history longer than the
\* longer of the limit and what was there, so a history within the limit stays
\* within it
HistoryNeverGrowsPastLimit ==
  [][\A c \in SaveCallers :
       SaveGroupHistoryReads(c) =>
         (Len(saveHistory'[c]) <= HistoryLimit \/ Len(saveHistory'[c]) <= Len(storedHistory))]_vars

\* a save onto an imported history of the limit's length dropped its oldest entry
HistoryFullWitness ==
  /\ historyWriter = "saveGroupHistory"
  /\ Len(storedHistory) = HistoryLimit
  /\ storedHistory[1].timestamp >= FirstTimestamp
  /\ storedHistory[HistoryLimit].timestamp = 2

\* ----------------------------------------------------- properties: settings

\* C38: a write of updateSettings(updates) sets the keys of updates and leaves
\* every other setting at the value it had in the store, also with two calls
\* interleaving
UpdateSettingsChangesOnlyItsKeys ==
  [][\A h \in Handlers :
       (reqPc[h] = "set" /\ reqPc'[h] = "idle" /\ answered'.success) =>
         \A k \in SettingKeys :
           storedSettings'[1][k] =
             IF k = updatesOf(request[h]).key THEN updatesOf(request[h]).value
             ELSE settingsOf(storedSettings)[k]]_vars

\* C39: a request whose write failed is answered success: false with the
\* in-memory pair as it was when the request came, and with no request in
\* flight the in-memory pair equals the stored one
FailedRequestLeavesMemory ==
  /\ [][\A h \in Handlers :
          (reqPc[h] = "set" /\ reqPc'[h] = "idle" /\ ~answered'.success) =>
            /\ isAutoMode' = previous[h].isAutoMode
            /\ thisMaxGroups' = previous[h].maxGroups]_vars
  /\ []((\A h \in Handlers : reqPc[h] = "idle") =>
          /\ isAutoMode = settingsOf(storedSettings).autoMode
          /\ thisMaxGroups = settingsOf(storedSettings).maxGroups)

\* ------------------------------- properties: cleanupAllDuplicates, rejected

\* C36: a tab that was in a group before a cleanupAllDuplicates call is in a
\* group after it, also when the host rejects the regrouping that follows the
\* ungroup
CleanupKeepsTabsGrouped ==
  [][cleanupCalls' > cleanupCalls =>
       \A t \in DOMAIN tabGroup : tabGroup[t] # NoGroupId => tabGroup'[t] # NoGroupId]_vars

\* the same when nothing is rejected
CleanupKeepsTabsGroupedUnrejected ==
  [][CleanupAllDuplicates =>
       \A t \in DOMAIN tabGroup : tabGroup[t] # NoGroupId => tabGroup'[t] # NoGroupId]_vars

\* -------------------------------------- properties: overlapping organizeTabs

\* no window holds two groups whose titles are equal once lower-cased and
\* trimmed
oneGroupPerNormalizedName ==
  \A g, h \in DOMAIN hostGroups :
    (g # h /\ hostGroups[g].windowId = hostGroups[h].windowId)
      => normalizedCategoryName(hostGroups[g].title) # normalizedCategoryName(hostGroups[h].title)

\* C35: when two organizeTabs runs whose host calls interleave have both ended,
\* no window holds two groups of one normalized name
OverlappingRunsLeaveNoDuplicate ==
  (cgPc = "returned" /\ otherRuns > 0) => oneGroupPerNormalizedName

\* the same of runs that follow one another: the second createGroups call
\* begins after the first has returned
SuccessiveRunsLeaveNoDuplicate ==
  [][(cgPc = "returned" /\ OtherRunCreateGroups) => oneGroupPerNormalizedName']_vars

\* ------------------------------------ properties: concurrent assignTabToGroup

\* C37: whenever the number of groups of a window goes up it stays within
\* maxGroups, that is, a group is created only in a window that holds fewer
\* than maxGroups groups, also with several tab events handled side by side
AssignKeepsGroupLimit ==
  [][\A w \in WindowIds :
       Len(queryGroups(hostGroups', w)) > Len(queryGroups(hostGroups, w))
         => Len(queryGroups(hostGroups', w)) <= maxGroups]_vars
====
